---- MODULE Spec2Model ----
(***************************************************************************)
(* Model of bubo's command handling (bubo/bot_commands.py): the permission *)
(* gates, the handlers of the command verbs, and the two-phase             *)
(* `rooms recreate` / `rooms recreate confirm` protocol with its persisted *)
(* recreate request.                                                       *)
(*                                                                         *)
(* One step of the model is one synchronous stretch of a handler: asyncio  *)
(* switches coroutines only at an await, the store calls are synchronous.  *)
(* The only await whose suspension the model keeps open is the call of     *)
(* recreate_room, during which other commands are handled.                 *)
(***************************************************************************)
EXTENDS Integers, Sequences, FiniteSets, Bags, TLC

VARIABLES
    now,             \* the wall clock, int(time.time())
    recreate_rooms,  \* the store's recreate_rooms table: a set of rows
    inflight,        \* bag of _recreate_room coroutines suspended in recreate_room
    rooms,           \* the store's rooms table: the ids of the rooms bubo tracks
    groups,          \* the homeserver's groups (communities): their aliases
    communities,     \* the store's communities table: a bag of rows
    breakout_rooms,  \* the store's breakout_rooms table: event id -> room id rows
    keycloak,        \* the identity provider: whether it answers, and its accounts
    search,          \* the `users create` command that is running, and where it is
    last             \* the step just taken: the command, who sent it, what it answered and did

vars == <<now, recreate_rooms, inflight, rooms, groups, communities, breakout_rooms, keycloak,
         search, last>>

\* the state outside the store's rooms and recreate_rooms tables
elsewhere == <<groups, communities, breakout_rooms, keycloak, search>>

----------------------------------------------------------------------------
(* Bounds and input sets *)

MaxTime == 61
MaxInFlight == 2

TickSteps == {30, 59, 60, 61}

None == "None"

Senders == {"@alice", "@bob"}

RoomIds == {"!ops", "!lobby"}

\* the room the commands are sent in when the commands of all verbs are explored
HomeRoom == "!ops"

\* The access configuration in force at a command: every gate fetches it anew,
\* so each command meets one of these. Between them each tier combination
\* occurs: no tier, coordinator only, admin only, both, and two admins at once.
Configs ==
    {[admins |-> {}, coordinators |-> {}, unavailable |-> {}],
     [admins |-> {"@alice"}, coordinators |-> {"@bob"}, unavailable |-> {}],
     [admins |-> {"@bob"}, coordinators |-> {}, unavailable |-> {}],
     [admins |-> {"@alice", "@bob"}, coordinators |-> {"@bob"}, unavailable |-> {}]}

----------------------------------------------------------------------------
(* Response texts *)

TEXT_PERMISSION_DENIED == "I'm afraid I cannot let you do that."

TEXT_DENIED_ADMIN == "I'm afraid I cannot let you do that. Admin level access needed."

TEXT_DENIED_COORDINATOR == "I'm afraid I cannot let you do that. Coordinator level access needed."

TEXT_ALREADY_RECREATED == "Can only recreate a room once, this room has already been recreated."

TEXT_RECREATE_UNKNOWN_SUBCOMMAND == "Unknown subcommand. Usage: HELP_ROOMS_RECREATE"

TEXT_CONFIRM_BEFORE_REQUEST == "Cannot confirm room recreate before requesting room recreate."

TEXT_CONFIRM_NOT_REQUESTER == "Room recreate confirm must be given by the room recreate requester."

TEXT_CONFIRM_EXPIRED == "Room recreate confirmation must be given within 60 seconds. Please request recreation again."

TEXT_RECREATE_FAILED == "Failed to create new room. Please see logs or contact support."

HELP_ROOMS_RECREATE_CONFIRM == "HELP_ROOMS_RECREATE_CONFIRM"

----------------------------------------------------------------------------
(* Command.process: the choice of the handler *)

\* str.startswith
startswith(text, prefix) ==
    Len(text) >= Len(prefix) /\ SubSeq(text, 1, Len(prefix)) = prefix

\* " ".join
RECURSIVE join(_)
join(tokens) ==
    IF tokens = <<>> THEN ""
    ELSE IF Len(tokens) = 1 THEN tokens[1]
    ELSE tokens[1] \o " " \o join(Tail(tokens))

\* lines 106-123: the handler the command text is dispatched to
dispatch(command) ==
    IF startswith(command, "breakout") THEN "_breakout"
    ELSE IF startswith(command, "communities") THEN "_communities"
    ELSE IF startswith(command, "help") THEN "_show_help"
    ELSE IF startswith(command, "invite") THEN "_invite"
    ELSE IF startswith(command, "power") THEN "_power"
    ELSE IF startswith(command, "rooms") THEN "_rooms"
    ELSE IF startswith(command, "spaces") THEN "_spaces"
    ELSE IF startswith(command, "users") THEN "_users"
    ELSE "_unknown_command"

----------------------------------------------------------------------------
(* The permission gate *)

\* bubo.utils.get_users_for_access: the users configured for an access level;
\* the coordinator level is open to the admins as well.
get_users_for_access(config, level) ==
    IF level = "admins"
    THEN config.admins
    ELSE config.coordinators \cup config.admins

\* bubo.utils.get_users_for_access raises: the lookup of the level fails
lookup_raises(config, level) == level \in config.unavailable

\* a gate that lets everybody through
ensure_admin_open(config, sender) == TRUE

\* a gate that lets the listed through also when the lookup fails
ensure_admin_listed(config, sender) == sender \in config.admins

\* Command._ensure_admin: True iff the lookup returns and the sender is among
\* the admins fetched now.
ensure_admin(config, sender) ==
    /\ ~lookup_raises(config, "admins")
    /\ sender \in get_users_for_access(config, "admins")

ensure_coordinator_open(config, sender) == TRUE

\* Command._ensure_coordinator
ensure_coordinator(config, sender) ==
    /\ ~lookup_raises(config, "coordinators")
    /\ sender \in get_users_for_access(config, "coordinators")

\* lines 83-88: the texts sent by _ensure_admin when it does not return True:
\* the denial, or nothing when the lookup raised
denied_admin(config) ==
    IF lookup_raises(config, "admins") THEN <<>> ELSE <<TEXT_DENIED_ADMIN>>

\* lines 95-100
denied_coordinator(config) ==
    IF lookup_raises(config, "coordinators") THEN <<>> ELSE <<TEXT_DENIED_COORDINATOR>>

\* the lookup of the tier checked last raised: the exception leaves the handler
gate_raised(config, checked) ==
    checked # <<>> /\ lookup_raises(config, checked[Len(checked)])

\* The tiers the configuration lists the sender in at this command.
TiersOf(config, sender) ==
    {t \in {"admin", "coordinator"} :
        \/ t = "admin" /\ sender \in config.admins
        \/ t = "coordinator" /\ sender \in config.coordinators}

----------------------------------------------------------------------------
(* The store's recreate_rooms table (bubo.storage.Storage) *)

\* the rows of every room
get_recreate_room_of_any(store, room_id) == store

\* Storage.get_recreate_room: the rows of the room (fetchone picks one of them)
get_recreate_room(store, room_id) ==
    {row \in store : row.room_id = room_id}

\* Storage.delete_recreate_room
delete_recreate_room(store, room_id) ==
    {row \in store : row.room_id # room_id}

\* Storage.store_recreate_room: a new row, stamped with the current time, not applied
store_recreate_room(store, requester, room_id, timestamp) ==
    store \cup {[requester |-> requester, room_id |-> room_id,
                 timestamp |-> timestamp, applied |-> 0]}

\* Storage.set_recreate_room_applied, called by recreate_room when it succeeded
set_recreate_room_applied(store, room_id) ==
    {IF row.room_id = room_id THEN [row EXCEPT !.applied = 1] ELSE row : row \in store}

----------------------------------------------------------------------------
(* Command._recreate_room *)

ConfirmWindow == 60

\* `applied` is not looked at
applied_unchecked(row) == FALSE

\* line 480: the request was applied already
already_applied(row) == row["applied"] = 1

\* the old request is left in the table
store_without_delete(store, sender, room_id, timestamp) ==
    store_recreate_room(store, sender, room_id, timestamp)

\* the request is handed to the new sender, its timestamp kept
replace_keeping_timestamp(store, sender, room_id, timestamp) ==
    {IF row.room_id = room_id THEN [row EXCEPT !.requester = sender] ELSE row : row \in store}

\* the request is renewed, its requester kept
replace_keeping_requester(store, sender, room_id, timestamp) ==
    {IF row.room_id = room_id THEN [row EXCEPT !.timestamp = timestamp] ELSE row : row \in store}

\* line 486: an unapplied request is deleted before the new one is stored
replace_request(store, sender, room_id, timestamp) ==
    store_recreate_room(delete_recreate_room(store, room_id), sender, room_id, timestamp)

\* anybody may confirm
requester_unchecked(row, sender) == FALSE

\* line 508: the confirming sender is not the requester
not_requester(row, sender) == row["requester"] # sender

\* the window closes a second early
confirm_expired_at_window(time, row) == time - row["timestamp"] >= ConfirmWindow

\* line 514: the confirmation comes too late
confirm_expired(time, row) == time - row["timestamp"] > ConfirmWindow

\* a failed recreation is passed over in silence
recreate_result_silent(new_room_id) == <<>>

\* line 525-530: what the handler sends when recreate_room has returned
recreate_result_texts(new_room_id) ==
    IF new_room_id = None THEN <<TEXT_RECREATE_FAILED>> ELSE <<>>

\* What a step leaves in `last`: the command (verb, args, sender, room), the
\* tiers the sender holds at that moment, the access levels the handler
\* fetched (checked), the texts it sent to the room, and the calls it made
\* that create or change something (effects).
\* Further: whether the handler ended in an exception nothing in it catches
\* (raised), and the answers it got from the homeserver (http): the statuses
\* of its HTTP requests, the event id of an announcement. And the rows of the
\* recreate_rooms table that `recreate` found (read).
Label(verb, args, sender, room, config, checked, texts, effects, raised, http) ==
    [verb |-> verb, args |-> args, sender |-> sender, room |-> room,
     tiers |-> TiersOf(config, sender), checked |-> checked,
     texts |-> texts, effects |-> effects, raised |-> raised, http |-> http, read |-> {}]

Outcome(verb, args, sender, room, config, checked, texts, effects, raised, http) ==
    last' = Label(verb, args, sender, room, config, checked, texts, effects, raised, http)

Step(verb, args, sender, room, config, checked, texts, effects) ==
    Outcome(verb, args, sender, room, config, checked, texts, effects,
            gate_raised(config, checked), <<>>)

\* The coroutine suspended in `await recreate_room(...)`: the room it recreates
\* and the `applied` of the row it read before the call.
Call(room, row) ==
    [room_id |-> room, applied |-> row["applied"]]

Command_recreate_room(verb, args, sender, room, config, checked0, subcommand) ==
    LET checked == Append(checked0, "admins")
        rows == get_recreate_room(recreate_rooms, room)
        Answer(texts, effects) ==
            last' = [Label(verb, args, sender, room, config, checked, texts, effects,
                           FALSE, <<>>)
                       EXCEPT !.read = IF subcommand = None THEN rows ELSE {}]
    IN
    IF ~ensure_admin(config, sender) THEN
        /\ Step(verb, args, sender, room, config, checked, denied_admin(config), {})
        /\ UNCHANGED <<now, elsewhere, recreate_rooms, inflight, rooms>>
    ELSE IF subcommand = None THEN
        IF rows = {} THEN
            /\ recreate_rooms' = store_recreate_room(recreate_rooms, sender, room, now)
            /\ Answer(<<HELP_ROOMS_RECREATE_CONFIRM>>, {"store_recreate_room"})
            /\ UNCHANGED <<now, elsewhere, inflight, rooms>>
        ELSE \E row \in rows :
            IF already_applied(row) THEN
                /\ Answer(<<TEXT_ALREADY_RECREATED>>, {})
                /\ UNCHANGED <<now, elsewhere, recreate_rooms, inflight, rooms>>
            ELSE
                /\ recreate_rooms' = replace_request(recreate_rooms, sender, room, now)
                /\ Answer(<<HELP_ROOMS_RECREATE_CONFIRM>>,
                          {"delete_recreate_room", "store_recreate_room"})
                /\ UNCHANGED <<now, elsewhere, inflight, rooms>>
    ELSE IF subcommand # "confirm" THEN
        /\ Answer(<<TEXT_RECREATE_UNKNOWN_SUBCOMMAND>>, {})
        /\ UNCHANGED <<now, elsewhere, recreate_rooms, inflight, rooms>>
    ELSE IF rows = {} THEN
        /\ Answer(<<TEXT_CONFIRM_BEFORE_REQUEST>>, {})
        /\ UNCHANGED <<now, elsewhere, recreate_rooms, inflight, rooms>>
    ELSE \E row \in rows :
        IF not_requester(row, sender) THEN
            /\ Answer(<<TEXT_CONFIRM_NOT_REQUESTER>>, {})
            /\ UNCHANGED <<now, elsewhere, recreate_rooms, inflight, rooms>>
        ELSE IF confirm_expired(now, row) THEN
            /\ Answer(<<TEXT_CONFIRM_EXPIRED>>, {})
            /\ UNCHANGED <<now, elsewhere, recreate_rooms, inflight, rooms>>
        ELSE
            /\ BagCardinality(inflight) < MaxInFlight
            /\ inflight' = inflight (+) SetToBag({Call(room, row)})
            /\ Answer(<<>>, {"recreate_room"})
            /\ UNCHANGED <<now, elsewhere, recreate_rooms, rooms>>


\* The await of recreate_room returns (bubo.rooms.recreate_room): with the id
\* of the new room, having marked the request applied, or with None. Lines
\* 525-530 then send the failure text, or nothing.
RecreateRoomReturn ==
    \E call \in BagToSet(inflight), new_room_id \in {None, "!new"} :
        /\ inflight' = inflight (-) SetToBag({call})
        /\ recreate_rooms' =
              IF new_room_id = None
              THEN recreate_rooms
              ELSE set_recreate_room_applied(recreate_rooms, call.room_id)
        /\ last' = [verb |-> "recreate_room", args |-> <<new_room_id>>,
                    sender |-> None, room |-> call.room_id, tiers |-> {},
                    checked |-> <<>>, texts |-> recreate_result_texts(new_room_id),
                    effects |-> IF new_room_id = None THEN {}
                                ELSE {"set_recreate_room_applied"},
                    raised |-> FALSE, http |-> <<>>, read |-> {}]
        /\ UNCHANGED <<now, elsewhere, rooms>>

----------------------------------------------------------------------------
(* Command._rooms and Command._unlink_room *)

HELP_ROOMS == "HELP_ROOMS"

HELP_SPACES == "HELP_SPACES"

HELP_ROOMS_UNLINK == "HELP_ROOMS_UNLINK"

TEXT_ROOMS_BAD_ARGUMENTS == "Wrong number or bad arguments. Usage:"

TEXT_ROOM_CREATED == "created successfully."

TEXT_ROOM_EXISTS == "Sorry! already exists."

TEXT_ROOM_ERROR == "Error creating"

TEXT_ROOMS_LIST == "I currently maintain the following rooms:"

TEXT_SPACES_LIST == "I currently maintain the following spaces:"

TEXT_ROOMS_NO_ADMIN == "I lack admin power in the following rooms I maintain:"

TEXT_UNKNOWN_SUBCOMMAND == "Unknown subcommand!"

TEXT_UNLINK_RESOLVE_ERROR == "Error resolving room ID"

TEXT_UNLINK_NOT_TRACKED == "Cannot unlink room which doesn't seem tracked by Bubo"

TEXT_UNLINKED == "Room has been removed from Bubo database."

TEXT_UNLINKED_LEFT == "Room has been removed from Bubo database. Bubo has also left the room"

\* Room references a command may carry: ids, an alias that resolves, one that does not.
RoomRefs == {"!lobby", "#lobby", "#missing"}

is_alias(ref) == ref \in {"#lobby", "#missing"}

\* every alias resolves to the lobby
resolve_any_alias(ref) == IF is_alias(ref) THEN "!lobby" ELSE ref

\* bubo.utils.ensure_room_id / client.room_resolve_alias: the room id of a
\* reference, None when the alias does not resolve.
resolve(ref) ==
    IF ~is_alias(ref) THEN ref
    ELSE IF ref = "#lobby" THEN "!lobby"
    ELSE None

\* The room id behind the alias given to `rooms create`.
alias_room(alias) == IF alias = "lobby" THEN "!lobby" ELSE "!ops"

\* lines 372-377: the parameters of `create` are refused
create_refused(params) ==
    \/ Len(params) # 5
    \/ params[4] \notin {"yes", "no"}
    \/ params[4] \notin {"yes", "no"}
    \/ params[1] = "help"

\* lines 548: `unlink` without a room
unlink_needs_help(args) == Len(args) < 2

\* Storage.get_room: the room has a row in the table of the tracked rooms
get_room(store, room_id) == room_id \in store

\* the row of the room is not asked for
tracked_unchecked(store, room_id) == FALSE

\* lines 563-564: the room is not tracked
not_tracked(store, room_id) == ~get_room(store, room_id)

Command_unlink_room(verb, args, sender, room, config, checked0, leave) ==
    LET checked == Append(checked0, "coordinators")
        Answer(texts, effects) ==
            Step(verb, args, sender, room, config, checked, texts, effects)
    IN
    IF ~ensure_coordinator(config, sender) THEN
        /\ Answer(denied_coordinator(config), {})
        /\ UNCHANGED <<now, elsewhere, recreate_rooms, inflight, rooms>>
    ELSE IF unlink_needs_help(args) THEN
        /\ Answer(<<HELP_ROOMS_UNLINK>>, {})
        /\ UNCHANGED <<now, elsewhere, recreate_rooms, inflight, rooms>>
    ELSE IF resolve(args[2]) = None THEN
        /\ Answer(<<TEXT_UNLINK_RESOLVE_ERROR>>, {})
        /\ UNCHANGED <<now, elsewhere, recreate_rooms, inflight, rooms>>
    ELSE IF not_tracked(rooms, resolve(args[2])) THEN
        /\ Answer(<<TEXT_UNLINK_NOT_TRACKED>>, {})
        /\ UNCHANGED <<now, elsewhere, recreate_rooms, inflight, rooms>>
    ELSE
        /\ rooms' = rooms \ {resolve(args[2])}
        /\ Answer(<<IF leave THEN TEXT_UNLINKED_LEFT ELSE TEXT_UNLINKED>>,
                  IF leave THEN {"unlink_room", "room_leave"} ELSE {"unlink_room"})
        /\ UNCHANGED <<now, elsewhere, recreate_rooms, inflight>>

Command_rooms(verb, args, sender, room, config) ==
    LET space == startswith(verb, "spaces")
        checked == <<"coordinators">>
        Answer(texts, effects) ==
            /\ Step(verb, args, sender, room, config, checked, texts, effects)
            /\ UNCHANGED <<now, elsewhere, recreate_rooms, inflight, rooms>>
    IN
    IF ~ensure_coordinator(config, sender) THEN
        Answer(denied_coordinator(config), {})
    ELSE IF args = <<>> THEN
        Answer(<<TEXT_ROOMS_LIST>>, {})
    ELSE IF args[1] = "create" THEN
        LET params == SubSeq(args, 2, Len(args)) IN
        IF create_refused(params) THEN
            Answer(<<TEXT_ROOMS_BAD_ARGUMENTS>>, {})
        ELSE
            \* bubo.rooms.ensure_room_exists: created (and tracked from then on),
            \* exists, or an error
            \E result \in {"created", "exists", "error"} :
                /\ rooms' = IF result = "created"
                            THEN rooms \cup {alias_room(params[2])}
                            ELSE rooms
                /\ Step(verb, args, sender, room, config, checked,
                        <<CASE result = "created" -> TEXT_ROOM_CREATED
                            [] result = "exists" -> TEXT_ROOM_EXISTS
                            [] OTHER -> TEXT_ROOM_ERROR>>,
                        {"ensure_room_exists"})
                /\ UNCHANGED <<now, elsewhere, recreate_rooms, inflight>>
    ELSE IF args[1] = "help" THEN
        Answer(<<IF space THEN HELP_SPACES ELSE HELP_ROOMS>>, {})
    ELSE IF args[1] = "list" THEN
        Answer(<<IF space THEN TEXT_SPACES_LIST ELSE TEXT_ROOMS_LIST>>, {})
    ELSE IF args[1] = "list-no-admin" THEN
        Answer(<<TEXT_ROOMS_NO_ADMIN>>, {})
    ELSE IF args[1] = "recreate" THEN
        Command_recreate_room(verb, args, sender, room, config, checked,
                              IF Len(args) > 1 THEN args[2] ELSE None)
    ELSE IF args[1] = "unlink" THEN
        Command_unlink_room(verb, args, sender, room, config, checked, FALSE)
    ELSE IF args[1] = "unlink-and-leave" THEN
        Command_unlink_room(verb, args, sender, room, config, checked, TRUE)
    ELSE
        Answer(<<TEXT_UNKNOWN_SUBCOMMAND>>, {})

RecreateArgs == {<<"recreate">>, <<"recreate", "confirm">>, <<"recreate", "help">>}

CreateArgs ==
    {<<"create">>, <<"create", "help">>, <<"create", "Lobby", "lobby", "parent", "yes">>}
    \cup {<<"create", "Lobby", "lobby", "parent", f1, f2>> :
             f1 \in {"yes", "maybe"}, f2 \in {"no", "maybe"}}

UnlinkArgs ==
    {<<"unlink">>, <<"unlink-and-leave">>}
    \cup {<<sub, ref>> : sub \in {"unlink", "unlink-and-leave"}, ref \in RoomRefs}

RoomsArgs ==
    {<<>>, <<"help">>, <<"list">>, <<"list-no-admin">>, <<"purge">>}
    \cup CreateArgs \cup UnlinkArgs

\* `rooms recreate [confirm]`, sent by any sender in any room at any time
RoomsRecreate ==
    \E sender \in Senders, room \in RoomIds, config \in Configs, args \in RecreateArgs :
        Command_rooms("rooms", args, sender, room, config)

\* `rooms recreate [confirm]` in that room
RoomsRecreateHome ==
    \E sender \in Senders, config \in Configs, args \in RecreateArgs :
        Command_rooms("rooms", args, sender, HomeRoom, config)

\* one command for each path of the handler
RoomsGateArgs ==
    {<<>>, <<"help">>, <<"list">>, <<"list-no-admin">>, <<"purge">>,
     <<"create">>, <<"create", "help">>, <<"create", "Lobby", "lobby", "parent", "yes", "no">>,
     <<"unlink">>, <<"unlink", "!lobby">>, <<"unlink", "#missing">>,
     <<"unlink-and-leave", "!lobby">>}

\* the other `rooms` and `spaces` commands
RoomsManage ==
    \E verb \in {"rooms", "spaces"}, sender \in Senders, config \in Configs,
       args \in RoomsGateArgs :
        Command_rooms(verb, args, sender, HomeRoom, config)

\* `rooms create` and `spaces create`, well formed and not
RoomsCreate ==
    \E verb \in {"rooms", "spaces"}, sender \in Senders, config \in Configs,
       args \in CreateArgs :
        Command_rooms(verb, args, sender, HomeRoom, config)

\* `rooms unlink` and `rooms unlink-and-leave` of tracked and untracked rooms
RoomsUnlink ==
    \E verb \in {"rooms", "spaces"}, sender \in Senders, config \in Configs,
       args \in UnlinkArgs :
        Command_rooms(verb, args, sender, HomeRoom, config)

----------------------------------------------------------------------------
(* bubo.communities.ensure_community_exists and Command._communities *)

HttpOk == 200

HttpCreated == 201

\* the statuses the homeserver may answer with
ProfileStatuses == {200, 404, 500}

CreateStatuses == {200, 201, 400, 500}

\* The homeserver's answer to the profile request for a group: 200 for a group
\* it has and 404 for one it has not, or a failure of the server.
profile_statuses(alias) ==
    IF alias \in groups THEN {200, 500} ELSE {404, 500}

\* the statuses with which the homeserver reports a group created
SuccessStatuses == {200, 201}

\* The homeserver's answer to the create request: it creates a group it has
\* not (200, 201) or refuses; it never creates a group it has.
create_statuses(alias) ==
    IF alias \in groups THEN {400, 500} ELSE CreateStatuses

\* the profile lookup always leads to a create request
profile_never_found(status) == FALSE

\* a create request is sent only for a group that is not found
profile_found_unless_missing(status) == status # 404

\* communities.py line 30
profile_found(status) == status = HttpOk

\* only the errors of the server count as a failure
create_failed_on_server_error(status) == status >= 500

\* communities.py line 48
create_failed(status) == status > HttpCreated

\* communities.py line 49: f"{response.status_code} / {response.content}"
error_detail(status) == ToString(status) \o " / content"

\* communities.py 26-50: <<"exists", None>> when the profile is found, else a
\* create request; <<"error", detail>> when that answers above 201, else
\* <<"created", None>>
ensure_community_exists(profile_status, create_status) ==
    IF profile_found(profile_status) THEN <<"exists", None>>
    ELSE IF create_failed(create_status) THEN <<"error", error_detail(create_status)>>
    ELSE <<"created", None>>

\* the requests ensure_community_exists has sent: the statuses it got
community_requests(profile_status, create_status) ==
    IF profile_found(profile_status) THEN <<profile_status>>
    ELSE <<profile_status, create_status>>

TEXT_COMMUNITIES_USAGE == "Wrong number of arguments. Usage: communities create NAME ALIAS TITLE"

TEXT_COMMUNITY_CREATED == "Community created successfully."

TEXT_COMMUNITY_EXISTS == "Sorry! Community already exists."

TEXT_COMMUNITY_ERROR == "Error creating community: "

TEXT_COMMUNITIES_LIST == "I currently maintain the following communities:"

\* line 175: the parameters of `communities create` are refused
community_refused(params) == Len(params) # 3 \/ params[1] = "help"

\* Storage.store_community: one more row
store_community(store, name, alias, title) ==
    store (+) SetToBag({[name |-> name, alias |-> alias, title |-> title]})

\* a row is stored whenever the community is there afterwards
stores_row_unless_error(result) == result # "error"

\* lines 194-201: the row is stored in the branch of "created"
stores_row(result) == result = "created"

Command_communities(verb, args, sender, room, config) ==
    LET checked == <<"coordinators">>
        Answer(texts, effects) ==
            /\ Step(verb, args, sender, room, config, checked, texts, effects)
            /\ UNCHANGED <<now, elsewhere, recreate_rooms, inflight, rooms>>
        params == SubSeq(args, 2, Len(args))
    IN
    IF ~ensure_coordinator(config, sender) THEN
        Answer(denied_coordinator(config), {})
    ELSE IF args = <<>> THEN
        Answer(<<TEXT_COMMUNITIES_LIST>>, {})
    ELSE IF args[1] # "create" THEN
        Answer(<<TEXT_UNKNOWN_SUBCOMMAND>>, {})
    ELSE IF community_refused(params) THEN
        Answer(<<TEXT_COMMUNITIES_USAGE>>, {})
    ELSE
        \E profile_status \in profile_statuses(params[2]),
           create_status \in create_statuses(params[2]) :
            LET outcome == ensure_community_exists(profile_status, create_status)
                result == outcome[1]
                requests == community_requests(profile_status, create_status)
            IN
            \* a status drawn for a create request that is not sent says nothing
            /\ Len(requests) = 1 => create_status = CHOOSE c \in create_statuses(params[2]) : TRUE
            /\ groups' = IF Len(requests) = 2 /\ create_status \in SuccessStatuses
                         THEN groups \cup {params[2]}
                         ELSE groups
            /\ communities' =
                  IF stores_row(result)
                  THEN store_community(communities, params[1], params[2], params[3])
                  ELSE communities
            /\ Outcome(verb, args, sender, room, config, checked,
                       <<CASE result = "created" -> TEXT_COMMUNITY_CREATED
                           [] result = "exists" -> TEXT_COMMUNITY_EXISTS
                           [] OTHER -> TEXT_COMMUNITY_ERROR \o outcome[2]>>,
                       (IF Len(requests) = 2 THEN {"create_group"} ELSE {})
                          \cup (IF stores_row(result) THEN {"store_community"} ELSE {}),
                       FALSE, requests)
            /\ UNCHANGED <<now, recreate_rooms, inflight, rooms, breakout_rooms, keycloak, search>>

CommunitiesArgs ==
    {<<>>, <<"help">>, <<"create">>, <<"create", "help">>,
     <<"create", "Epic", "epic">>, <<"create", "Epic", "epic", "Best">>}

Communities ==
    \E sender \in Senders, config \in Configs, args \in CommunitiesArgs :
        Command_communities("communities", args, sender, HomeRoom, config)

\* `communities create` for either of two communities, and the listing
CommunityCreateArgs ==
    {<<>>, <<"create", "Epic", "epic", "Best">>, <<"create", "Zine", "zine", "Zines">>}

CommunitiesCreate ==
    \E sender \in Senders, config \in Configs, args \in CommunityCreateArgs :
        Command_communities("communities", args, sender, HomeRoom, config)

----------------------------------------------------------------------------
(* Command._invite *)

HELP_INVITE == "HELP_INVITE"

TEXT_COULD_NOT_RESOLVE == "Could not resolve room ID. Please ensure room exists."

TEXT_INVALID_MXID == "Invalid user mxid:"

\* nio.schemas.check_user_id accepts the id
valid_user_id(user_id) == user_id \in {"@carol", "@dave"}

\* lines 237: `invite` answers with its help
invite_needs_help(args) == args = <<>> \/ args[1] = "help"

\* lines 258-288: who is invited: the sender when no user is named, else every
\* named user whose id is valid
invited(args, sender) ==
    IF Len(args) = 1 THEN {sender}
    ELSE {args[i] : i \in {j \in 2..Len(args) : valid_user_id(args[j])}}

Command_invite(verb, args, sender, room, config) ==
    LET checked == <<"coordinators">>
        Answer(texts, effects) ==
            /\ Step(verb, args, sender, room, config, checked, texts, effects)
            /\ UNCHANGED <<now, elsewhere, recreate_rooms, inflight, rooms>>
    IN
    IF ~ensure_coordinator(config, sender) THEN
        Answer(denied_coordinator(config), {})
    ELSE IF invite_needs_help(args) THEN
        Answer(<<HELP_INVITE>>, {})
    ELSE IF resolve(args[1]) = None THEN
        Answer(<<TEXT_COULD_NOT_RESOLVE>>, {})
    ELSE
        Answer([i \in 1..Cardinality({j \in 2..Len(args) : ~valid_user_id(args[j])})
                   |-> TEXT_INVALID_MXID],
               IF invited(args, sender) = {} THEN {} ELSE {"invite_to_room"})

InviteArgs ==
    {<<>>, <<"help">>}
    \cup {<<ref>> : ref \in RoomRefs}
    \cup {<<ref, user>> : ref \in {"!lobby", "#missing"}, user \in {"@carol", "carol"}}
    \cup {<<"#lobby", "carol", "@dave">>}

\* one command for each path of the handler
InviteGateArgs ==
    {<<>>, <<"help">>, <<"!lobby">>, <<"#missing">>, <<"!lobby", "@carol">>,
     <<"#lobby", "carol", "@dave">>}

Invite ==
    \E sender \in Senders, config \in Configs, args \in InviteGateArgs :
        Command_invite("invite", args, sender, HomeRoom, config)

----------------------------------------------------------------------------
(* Command._power *)

HELP_POWER == "Set power level in a room. Usage:"

TEXT_POWER_BAD_ARGUMENTS == "Cannot understand arguments."

TEXT_POWER_BAD_LEVEL == "Level must be 'moderator' or 'admin'."

TEXT_POWER_ADMIN_ONLY == "Only bot admins can set admin level power, sorry."

TEXT_POWER_FAILED == "Sorry, command failed."

TEXT_POWER_SET == "Power level was successfully set as requested."

TEXT_POWER_NO_PERMISSION == "Failed to set power level - no permissions to do so or not in room."

TEXT_POWER_ERROR_CODE == "Failed to set power level - error code"

TEXT_POWER_UNKNOWN_RESPONSE == "Unknown power level response, please consult the logs."

AdminPower == 100

ModeratorPower == 50

\* what bubo.rooms.set_user_power may return
PowerResponses == {"RoomPutStateResponse", "RoomPutStateError", "403", "500", "None"}

\* lines 319-322: the level asked for, `moderator` when none is given
requested_level(args) == IF Len(args) >= 3 THEN args[3] ELSE "moderator"

\* line 323
level_allowed(level) == level \in {"moderator", "admin"}

\* the admin level is given by any coordinator
admin_level_unchecked(level, config, sender) == FALSE

\* line 326: the admin level is for the bot's admins only
admin_level_refused(level, config, sender) ==
    level = "admin" /\ ~ensure_admin(config, sender)

\* lines 329-332
power_of(level) == IF level = "admin" THEN AdminPower ELSE ModeratorPower

\* the name under which a call of set_user_power with this power is recorded
set_user_power_call(power) ==
    IF power = AdminPower THEN "set_user_power:100" ELSE "set_user_power:50"

\* lines 336-351
power_response_text(response) ==
    CASE response = "RoomPutStateError" -> TEXT_POWER_FAILED
      [] response = "RoomPutStateResponse" -> TEXT_POWER_SET
      [] response = "403" -> TEXT_POWER_NO_PERMISSION
      [] response = "500" -> TEXT_POWER_ERROR_CODE
      [] OTHER -> TEXT_POWER_UNKNOWN_RESPONSE

Command_power(verb, args, sender, room, config) ==
    LET Answer(checked, texts, effects) ==
            /\ Step(verb, args, sender, room, config, checked, texts, effects)
            /\ UNCHANGED <<now, elsewhere, recreate_rooms, inflight, rooms>>
        level == requested_level(args)
    IN
    IF ~ensure_coordinator(config, sender) THEN
        Answer(<<"coordinators">>, denied_coordinator(config), {})
    ELSE IF args = <<>> \/ args[1] = "help" THEN
        Answer(<<"coordinators">>, <<HELP_POWER>>, {})
    ELSE IF Len(args) < 2 THEN
        Answer(<<"coordinators">>, <<TEXT_POWER_BAD_ARGUMENTS>>, {})
    ELSE IF is_alias(args[2]) /\ resolve(args[2]) = None THEN
        Answer(<<"coordinators">>, <<TEXT_COULD_NOT_RESOLVE>>, {})
    ELSE IF ~level_allowed(level) THEN
        Answer(<<"coordinators">>, <<TEXT_POWER_BAD_LEVEL>>, {})
    ELSE IF admin_level_refused(level, config, sender) THEN
        Answer(<<"coordinators", "admins">>,
               denied_admin(config) \o
                  (IF lookup_raises(config, "admins") THEN <<>>
                   ELSE <<TEXT_POWER_ADMIN_ONLY>>), {})
    ELSE
        \E response \in PowerResponses :
            Answer(IF level = "admin" THEN <<"coordinators", "admins">>
                   ELSE <<"coordinators">>,
                   <<power_response_text(response)>>,
                   {set_user_power_call(power_of(level))})

PowerArgs ==
    {<<>>, <<"help">>, <<"@carol">>, <<"@carol", "#missing">>, <<"@carol", "#missing", "admin">>}
    \cup {<<"@carol", ref>> : ref \in {"!lobby", "#lobby"}}
    \cup {<<"@carol", "!lobby", level>> : level \in {"moderator", "admin", "owner"}}

Power ==
    \E sender \in Senders, config \in Configs, args \in PowerArgs :
        Command_power("power", args, sender, HomeRoom, config)

----------------------------------------------------------------------------
(* Command._users *)

HELP_USERS == "HELP_USERS"

HELP_USERS_CREATE == "HELP_USERS_CREATE"

HELP_USERS_INVITE == "HELP_USERS_INVITE"

HELP_USERS_SIGNUPLINK == "HELP_USERS_SIGNUPLINK"

HELP_USERS_KEYCLOAK_DISABLED == "HELP_USERS_KEYCLOAK_DISABLED"

HELP_USERS_KEYCLOAK_SIGNUP_DISABLED == "HELP_USERS_KEYCLOAK_SIGNUP_DISABLED"

TEXT_USERS_LIST == "The following usernames were found:"

TEXT_USERS_CREATE_REPORT == "users create: one line per email"

TEXT_USERS_INVITE_REPORT == "users invite: one line per email"

TEXT_SIGNUPLINK_ERROR == "Error creating signup link. Please contact an administrator."

TEXT_SIGNUPLINK_CREATED == "Signup link created"

\* email_validator.validate_email accepts the address
valid_email(email) == email \in {"ann@example.org", "An+n@example.org"}

\* what happens to a valid email in `users create`: the lookup by email fails,
\* finds an account, or finds none and create_user returns no id, or an id
CreateOutcomes == {"lookup_error", "exists", "create_failed", "created"}

\* lines 663-672: the calls `users create` makes for the outcomes of its emails
create_calls(outcomes) ==
    (IF outcomes \cap {"create_failed", "created"} # {} THEN {"create_user"} ELSE {})
    \cup (IF "created" \in outcomes THEN {"send_password_reset"} ELSE {})

\* int() accepts the token
is_int(token) == token \in {"0", "3", "7"}

\* lines 731-732: int() of a token it accepts
to_int(token) ==
    CASE token = "0" -> 0
      [] token = "3" -> 3
      [] OTHER -> 7

\* lines 730-740: the numbers of `users signuplink` are refused
signuplink_refused(max_signups, days_valid) ==
    \/ ~is_int(max_signups)
    \/ ~is_int(days_valid)
    \/ to_int(max_signups) < 1
    \/ to_int(days_valid) < 1

\* lines 605, 688: the subcommand has no emails, or is asked for its help
emails_need_help(args) == Len(args) = 1 \/ args[2] = "help"

\* line 724
signuplink_needs_help(args) == Len(args) < 3 \/ args[2] = "help"

\* users.list_users: the accounts of the realm, or the exception of the
\* identity provider's client
list_users_results == {"listed", "raised"}

Command_users(verb, args, sender, room, config, keycloak_enabled, signup_enabled) ==
    LET Answer(checked, texts, effects) ==
            /\ Step(verb, args, sender, room, config, checked, texts, effects)
            /\ UNCHANGED <<now, elsewhere, recreate_rooms, inflight, rooms>>
        emails == {args[i] : i \in 2..Len(args)}
    IN
    IF ~keycloak_enabled THEN
        Answer(<<>>, <<HELP_USERS_KEYCLOAK_DISABLED>>, {})
    ELSE IF args = <<>> \/ args[1] = "list" THEN
        IF ~ensure_admin(config, sender)
        THEN Answer(<<"admins">>, denied_admin(config), {})
        ELSE
            \* lines 597-599, 762-766: list_users is not in a try: when the
            \* identity provider fails, the exception leaves the handler
            \E listing \in list_users_results :
                IF listing = "raised" THEN
                    /\ Outcome(verb, args, sender, room, config, <<"admins">>, <<>>, {},
                               TRUE, <<>>)
                    /\ UNCHANGED <<now, elsewhere, recreate_rooms, inflight, rooms>>
                ELSE Answer(<<"admins">>, <<TEXT_USERS_LIST>>, {})
    ELSE IF args[1] = "help" THEN
        Answer(<<>>, <<HELP_USERS>>, {})
    ELSE IF args[1] = "create" THEN
        IF ~ensure_admin(config, sender) THEN
            Answer(<<"admins">>, denied_admin(config), {})
        ELSE IF emails_need_help(args) THEN
            Answer(<<"admins">>, <<HELP_USERS_CREATE>>, {})
        ELSE
            \E outcome \in [{e \in emails : valid_email(e)} -> CreateOutcomes] :
                Answer(<<"admins">>, <<TEXT_USERS_CREATE_REPORT>>,
                       create_calls({outcome[e] : e \in DOMAIN outcome}))
    ELSE IF args[1] = "invite" THEN
        IF ~ensure_coordinator(config, sender) THEN
            Answer(<<"coordinators">>, denied_coordinator(config), {})
        ELSE IF ~signup_enabled THEN
            Answer(<<"coordinators">>, <<HELP_USERS_KEYCLOAK_SIGNUP_DISABLED>>, {})
        ELSE IF emails_need_help(args) THEN
            Answer(<<"coordinators">>, <<HELP_USERS_INVITE>>, {})
        ELSE
            Answer(<<"coordinators">>, <<TEXT_USERS_INVITE_REPORT>>,
                   IF \E e \in emails : valid_email(e) THEN {"invite_user"} ELSE {})
    ELSE IF args[1] = "signuplink" THEN
        IF ~ensure_coordinator(config, sender) THEN
            Answer(<<"coordinators">>, denied_coordinator(config), {})
        ELSE IF ~signup_enabled THEN
            Answer(<<"coordinators">>, <<HELP_USERS_KEYCLOAK_SIGNUP_DISABLED>>, {})
        ELSE IF signuplink_needs_help(args) THEN
            Answer(<<"coordinators">>, <<HELP_USERS_SIGNUPLINK>>, {})
        ELSE IF signuplink_refused(args[2], args[3]) THEN
            Answer(<<"coordinators">>, <<HELP_USERS_SIGNUPLINK>>, {})
        ELSE
            \* create_signup_link posts the page, and may raise
            \E raised \in BOOLEAN :
                Answer(<<"coordinators">>,
                       <<IF raised THEN TEXT_SIGNUPLINK_ERROR ELSE TEXT_SIGNUPLINK_CREATED>>,
                       {"create_signup_link"})
    ELSE
        Answer(<<>>, <<HELP_USERS>>, {})

UsersArgs ==
    {<<>>, <<"list">>, <<"help">>, <<"purge">>,
     <<"create">>, <<"create", "help">>, <<"create", "ann@example.org">>,
     <<"create", "ann@example.org", "bogus">>,
     <<"invite">>, <<"invite", "help">>, <<"invite", "ann@example.org">>, <<"invite", "bogus">>,
     <<"signuplink">>, <<"signuplink", "help", "7">>, <<"signuplink", "3">>,
     <<"signuplink", "3", "7">>, <<"signuplink", "0", "7">>, <<"signuplink", "many", "7">>}

\* config.keycloak and config.keycloak_signup: is each integration enabled
KeycloakConfigs ==
    {[keycloak |-> FALSE, signup |-> FALSE],
     [keycloak |-> TRUE, signup |-> FALSE],
     [keycloak |-> TRUE, signup |-> TRUE]}

\* one command for each path of the handler
UsersGateArgs ==
    {<<>>, <<"list">>, <<"help">>, <<"purge">>, <<"create">>, <<"create", "ann@example.org">>,
     <<"invite">>, <<"invite", "ann@example.org">>, <<"signuplink", "3">>,
     <<"signuplink", "3", "7">>, <<"signuplink", "many", "7">>}

Users ==
    \E sender \in Senders, config \in Configs, args \in UsersGateArgs, kc \in KeycloakConfigs :
        Command_users("users", args, sender, HomeRoom, config, kc.keycloak, kc.signup)

----------------------------------------------------------------------------
(* Command._users: `users create`, one call of the identity provider at a time *)

\* the suffixes up to this one are told apart; the search goes on beyond it,
\* the larger suffixes standing in turn for MaxSuffix and MaxSuffix + 1
MaxSuffix == 5

\* an outage of the identity provider that lasts beyond this suffix lasts
RecoverBy == 1

Idle == [pc |-> "idle"]

\* the accounts of the identity provider that bubo did not create
LegacyUsers ==
    {[username |-> "ann", email |-> "ann@example.net"],
     [username |-> "ann1", email |-> "ann1@example.net"]}

usernames(kc) == {u.username : u \in kc.users}

contains(text, char) == \E i \in 1..Len(text) : SubSeq(text, i, i) = char

UPPERCASE == "ABCDEFGHIJKLMNOPQRSTUVWXYZ"

LOWERCASE == "abcdefghijklmnopqrstuvwxyz"

\* the characters the pattern [^a-z0-9._\-] leaves in place
USERNAME_CHARS == "abcdefghijklmnopqrstuvwxyz0123456789._-"

lower_char(char) ==
    IF contains(UPPERCASE, char)
    THEN LET i == CHOOSE i \in 1..Len(UPPERCASE) : SubSeq(UPPERCASE, i, i) = char
         IN SubSeq(LOWERCASE, i, i)
    ELSE char

\* lines 638-641 on one character: str.lower, then re.sub(r"[^a-z0-9._\-]", "", ...)
username_char(char) ==
    LET lowered == lower_char(char)
    IN IF contains(USERNAME_CHARS, lowered) THEN lowered ELSE ""

RECURSIVE username_from(_, _)
\* lines 637-641 from the i-th character of the email on: split("@")[0] ends
\* at the first "@", and both conversions take each character by itself
username_from(email, i) ==
    IF i > Len(email) \/ SubSeq(email, i, i) = "@" THEN ""
    ELSE username_char(SubSeq(email, i, i)) \o username_from(email, i + 1)

\* lines 637-641: the username derived from the email
username_candidate_of(email) == username_from(email, 1)

\* lines 642, 659: the candidate of the search after `counter` collisions
candidate_of(username_candidate, counter) ==
    IF counter = 0 THEN username_candidate ELSE username_candidate \o ToString(counter)

\* users.py lines 100-112: the identity provider is asked for the accounts
\* with the attribute; the call raises when it does not answer, and when it
\* answers with more than one account
get_user_by_attr(kc, attr, value) ==
    LET users == {u \in kc.users : u[attr] = value} IN
    IF ~kc.up THEN "raised"
    ELSE IF Cardinality(users) = 1 THEN "found"
    ELSE IF Cardinality(users) > 1 THEN "raised"
    ELSE "none"

\* an account with the email is not looked at
existing_user_by_email_ignored(found) == FALSE

\* lines 628-632: the lookup by email returned an account
existing_user_by_email(found) == found = "found"

existing_user_unless_raised(found) == found = "found"

\* lines 648-654: a lookup that raises counts as an account found
existing_user(found) == found # "none"

\* users.py lines 47-58: the identity provider creates the account and
\* answers with its id, or with none; the call raises when the provider does
\* not answer, and when it refuses a username that is taken
create_user_results(kc, username) ==
    IF ~kc.up \/ username \in usernames(kc) THEN {"raised"} ELSE {"created", "none"}

TEXT_EMAIL_INVALID(email) == "The email " \o email \o " looks invalid"

TEXT_EMAIL_LOOKUP_ERROR(email) == "Error looking up existing users by email " \o email

TEXT_EMAIL_EXISTS(email) == "Found an existing user by email " \o email \o " - ignoring"

TEXT_CREATE_FAILED(email) == "Failed to create user for email " \o email

TEXT_CREATED(email) == "Successfully create " \o email \o "!"

RECURSIVE join_lines(_)
\* line 678: "\n".join(texts)
join_lines(texts) ==
    IF texts = <<>> THEN ""
    ELSE IF Len(texts) = 1 THEN texts[1]
    ELSE texts[1] \o "\n" \o join_lines(Tail(texts))

\* the steps of `users create` between its calls of the identity provider
InternalVerbs == {"users: emails", "users: get_user_by_attr", "keycloak"}

Internal(verb) ==
    last' = [verb |-> verb, args |-> <<>>, sender |-> None, room |-> None,
             tiers |-> {}, checked |-> <<>>, texts |-> <<>>, effects |-> {},
             raised |-> FALSE, http |-> <<>>, read |-> {}]

UsersCreateArgs ==
    {<<"create">>, <<"create", "bogus">>, <<"create", "ann@example.org">>,
     <<"create", "An+n@example.org", "ann@example.org">>}

\* lines 602-609: `users create` is received; an admin who names emails
\* starts the loop over them
UsersCreate ==
    \E sender \in Senders, config \in Configs, args \in UsersCreateArgs :
        /\ search.pc = "idle"
        /\ IF ~ensure_admin(config, sender) \/ emails_need_help(args)
           THEN Command_users("users", args, sender, HomeRoom, config, TRUE, TRUE)
           ELSE /\ search' = [pc |-> "emails", args |-> args, sender |-> sender,
                              config |-> config,
                              emails |-> {args[i] : i \in 2..Len(args)}, texts |-> <<>>,
                              effects |-> {}]
                /\ Internal("users: emails")
                /\ UNCHANGED <<now, recreate_rooms, inflight, rooms, groups, communities,
                               breakout_rooms, keycloak>>

\* lines 611-642: the next email of the loop: validated, looked up, and its
\* username search begun
UsersCreateEmail ==
    /\ search.pc = "emails"
    /\ \E email \in search.emails :
        LET rest == [search EXCEPT !.emails = @ \ {email}]
            Skip(text) == search' = [rest EXCEPT !.texts = Append(@, text)]
            found == get_user_by_attr(keycloak, "email", email)
        IN
        IF ~valid_email(email) THEN Skip(TEXT_EMAIL_INVALID(email))
        ELSE IF found = "raised" THEN Skip(TEXT_EMAIL_LOOKUP_ERROR(email))
        ELSE IF existing_user_by_email(found) THEN Skip(TEXT_EMAIL_EXISTS(email))
        ELSE search' = [pc |-> "search", args |-> rest.args, sender |-> rest.sender,
                        config |-> rest.config, emails |-> rest.emails,
                        texts |-> rest.texts, effects |-> rest.effects, email |-> email,
                        username_candidate |-> username_candidate_of(email),
                        candidate |-> username_candidate_of(email), counter |-> 0,
                        skipped |-> {}]
    /\ Internal("users: emails")
    /\ UNCHANGED <<now, recreate_rooms, inflight, rooms, groups, communities,
                   breakout_rooms, keycloak>>

\* the loop over the emails, back from the search of one of them
emails_loop(state, text, effects) ==
    [pc |-> "emails", args |-> state.args, sender |-> state.sender,
     config |-> state.config, emails |-> state.emails,
     texts |-> Append(state.texts, text), effects |-> state.effects \cup effects]

\* lines 643-677: one round of `while not username`: the candidate is looked
\* up; if it is taken the next one is derived, else the account is created
\* under it and its password reset is sent
UsernameLookup ==
    /\ search.pc = "search"
    /\ LET found == get_user_by_attr(keycloak, "username", search.candidate)
           counter == IF search.counter <= MaxSuffix THEN search.counter + 1 ELSE MaxSuffix
       IN
       IF existing_user(found) THEN
           /\ search' = [search EXCEPT
                            !.counter = counter,
                            !.candidate = candidate_of(search.username_candidate, counter),
                            !.skipped = IF found = "raised" THEN @ \cup {search.candidate}
                                        ELSE @]
           /\ Internal("users: get_user_by_attr")
           /\ UNCHANGED keycloak
       ELSE
           \E user_id \in create_user_results(keycloak, search.candidate) :
               IF user_id = "raised" THEN
                   /\ search' = Idle
                   /\ Outcome("users", search.args, search.sender, HomeRoom, search.config,
                              <<"admins">>, <<>>, search.effects \cup {"create_user"},
                              TRUE, <<>>)
                   /\ UNCHANGED keycloak
               ELSE IF user_id = "none" THEN
                   /\ search' = emails_loop(search, TEXT_CREATE_FAILED(search.email),
                                            {"create_user"})
                   /\ Internal("users: emails")
                   /\ UNCHANGED keycloak
               ELSE
                   /\ search' = emails_loop(search, TEXT_CREATED(search.email),
                                            {"create_user", "send_password_reset"})
                   /\ keycloak' = [keycloak EXCEPT !.users = @ \cup
                                      {[username |-> search.candidate,
                                        email |-> search.email]}]
                   /\ Internal("users: emails")
    /\ UNCHANGED <<now, recreate_rooms, inflight, rooms, groups, communities, breakout_rooms>>

\* lines 678, 764-765: the loop over the emails is over, the report is sent
UsersCreateReport ==
    /\ search.pc = "emails"
    /\ search.emails = {}
    /\ search' = Idle
    /\ Step("users", search.args, search.sender, HomeRoom, search.config, <<"admins">>,
            <<join_lines(search.texts)>>, search.effects)
    /\ UNCHANGED <<now, recreate_rooms, inflight, rooms, groups, communities,
                   breakout_rooms, keycloak>>

\* the identity provider stops answering
KeycloakOutage ==
    /\ keycloak.up
    /\ keycloak' = [keycloak EXCEPT !.up = FALSE]
    /\ Internal("keycloak")
    /\ UNCHANGED <<now, recreate_rooms, inflight, rooms, groups, communities,
                   breakout_rooms, search>>

\* the identity provider answers again
KeycloakRecovers ==
    /\ ~keycloak.up
    /\ search.pc = "search" => search.counter <= RecoverBy
    /\ keycloak' = [keycloak EXCEPT !.up = TRUE]
    /\ Internal("keycloak")
    /\ UNCHANGED <<now, recreate_rooms, inflight, rooms, groups, communities,
                   breakout_rooms, search>>

----------------------------------------------------------------------------
(* Command._breakout *)

HELP_BREAKOUT == "Creates a breakout room. Usage:"

TEXT_BREAKOUT_CREATED == "Breakout room created! React to this message with any emoji reaction to get invited to the room."

TEXT_BREAKOUT_NOT_STORED == "Error: failed to store breakout room data. The room was created, but invites via reactions will not work."

\* the event ids the homeserver gives to the announcements
EventIds == {"$1", "$2"}

BreakoutRoom == "!breakout"

\* line 143: `breakout` answers with its help
breakout_needs_help(args) == args = <<>> \/ args[1] = "help"

\* the announcement has no event id to register the room under
announcement_always_registered(event_id) == FALSE

\* line 155: `if event_id` fails
announcement_unregistered(event_id) == event_id = None

\* Storage.store_breakout_room
store_breakout_room(store, event_id, room_id) ==
    store \cup {[event_id |-> event_id, room_id |-> room_id]}

\* Lines 143-162. The handler has no gate. send_text_to_room returns the event
\* id of the announcement or None; the store write succeeds or raises, and
\* nothing in the handler catches what it raises.
Command_breakout(verb, args, sender, room, config) ==
    LET Answer(texts, effects, raised, http) ==
            Outcome(verb, args, sender, room, config, <<>>, texts, effects, raised, http)
        used == {row.event_id : row \in breakout_rooms}
    IN
    IF breakout_needs_help(args) THEN
        /\ Answer(<<HELP_BREAKOUT>>, {}, FALSE, <<>>)
        /\ UNCHANGED <<now, recreate_rooms, inflight, rooms, elsewhere>>
    ELSE
        \E event_id \in {None} \cup (EventIds \ used), write_raises \in BOOLEAN :
            IF announcement_unregistered(event_id) THEN
                /\ ~write_raises
                /\ Answer(<<TEXT_BREAKOUT_CREATED, TEXT_BREAKOUT_NOT_STORED>>,
                          {"create_breakout_room"}, FALSE, <<event_id>>)
                /\ UNCHANGED <<now, recreate_rooms, inflight, rooms, elsewhere>>
            ELSE IF write_raises THEN
                /\ Answer(<<TEXT_BREAKOUT_CREATED>>, {"create_breakout_room"}, TRUE,
                          <<event_id>>)
                /\ UNCHANGED <<now, recreate_rooms, inflight, rooms, elsewhere>>
            ELSE
                /\ breakout_rooms' = store_breakout_room(breakout_rooms, event_id, BreakoutRoom)
                /\ Answer(<<TEXT_BREAKOUT_CREATED>>,
                          {"create_breakout_room", "store_breakout_room"}, FALSE,
                          <<event_id>>)
                /\ UNCHANGED <<now, recreate_rooms, inflight, rooms,
                               groups, communities, keycloak, search>>

----------------------------------------------------------------------------
(* Command.process, Command._show_help and Command._unknown_command *)

HELP_HELP == "HELP_HELP"

TEXT_UNKNOWN_COMMAND == "Unknown command. Try the 'help' command for more information."

Command_show_help(verb, args, sender, room, config) ==
    /\ Step(verb, args, sender, room, config, <<>>, <<HELP_HELP>>, {})
    /\ UNCHANGED <<now, recreate_rooms, inflight, rooms, elsewhere>>

Command_unknown_command(verb, args, sender, room, config) ==
    /\ Step(verb, args, sender, room, config, <<>>, <<TEXT_UNKNOWN_COMMAND>>, {})
    /\ UNCHANGED <<now, recreate_rooms, inflight, rooms, elsewhere>>

\* the verbs of the command grammar
KnownVerbs ==
    {"help", "breakout", "rooms", "spaces", "communities", "power", "invite", "users"}

\* first tokens that are no verb: longer than a verb, shorter, in another case, unrelated
OtherTokens ==
    {"helpme", "roomsx", "inviteall", "room", "Rooms", "frobnicate"}

\* arguments every handler is tried with
ProcessArgs ==
    {<<>>, <<"help">>, <<"Standup">>, <<"create", "help">>,
     <<"create", "Epic", "epic", "Best">>, <<"recreate", "help">>, <<"unlink", "help">>,
     <<"invite", "help">>, <<"signuplink", "help">>}

\* Command.process on the command text `token args...`
Process ==
    \E token \in KnownVerbs \cup OtherTokens, args \in ProcessArgs,
       sender \in Senders, config \in Configs :
        LET handler == dispatch(join(<<token>> \o args)) IN
        IF handler = "_breakout" THEN
            Command_breakout(token, args, sender, HomeRoom, config)
        ELSE IF handler = "_communities" THEN
            Command_communities(token, args, sender, HomeRoom, config)
        ELSE IF handler = "_show_help" THEN
            Command_show_help(token, args, sender, HomeRoom, config)
        ELSE IF handler = "_invite" THEN
            Command_invite(token, args, sender, HomeRoom, config)
        ELSE IF handler = "_power" THEN
            Command_power(token, args, sender, HomeRoom, config)
        ELSE IF handler \in {"_rooms", "_spaces"} THEN
            Command_rooms(token, args, sender, HomeRoom, config)
        ELSE IF handler = "_users" THEN
            \E kc \in KeycloakConfigs :
                Command_users(token, args, sender, HomeRoom, config, kc.keycloak, kc.signup)
        ELSE
            Command_unknown_command(token, args, sender, HomeRoom, config)

----------------------------------------------------------------------------
(* invite and power on every room reference *)

InviteRefs ==
    \E sender \in Senders, config \in Configs, args \in InviteArgs :
        Command_invite("invite", args, sender, HomeRoom, config)

PowerRefs ==
    \E sender \in Senders, config \in Configs, args \in PowerArgs :
        Command_power("power", args, sender, HomeRoom, config)

----------------------------------------------------------------------------
(* The gated handlers while the lookup of an access level may fail *)

\* GateConfigs lists both senders as admins and one as coordinator
GateConfigs ==
    {[admins |-> {"@alice", "@bob"}, coordinators |-> {"@bob"}, unavailable |-> levels] :
        levels \in SUBSET {"admins", "coordinators"}}

GateRoomsArgs ==
    {<<"create", "Lobby", "lobby", "parent", "yes", "no">>, <<"unlink", "!lobby">>,
     <<"unlink-and-leave", "!lobby">>, <<"recreate">>, <<"recreate", "confirm">>}

GateRooms ==
    \E sender \in Senders, config \in GateConfigs, args \in GateRoomsArgs :
        Command_rooms("rooms", args, sender, HomeRoom, config)

GateCommunities ==
    \E sender \in Senders, config \in GateConfigs :
        Command_communities("communities", <<"create", "Epic", "epic", "Best">>, sender,
                            HomeRoom, config)

GateInvite ==
    \E sender \in Senders, config \in GateConfigs :
        Command_invite("invite", <<"!lobby", "@carol">>, sender, HomeRoom, config)

GatePower ==
    \E sender \in Senders, config \in GateConfigs, level \in {"moderator", "admin"} :
        Command_power("power", <<"@carol", "!lobby", level>>, sender, HomeRoom, config)

GateUsers ==
    \E sender \in Senders, config \in GateConfigs,
       args \in {<<"list">>, <<"create", "ann@example.org">>, <<"invite", "ann@example.org">>} :
        Command_users("users", args, sender, HomeRoom, config, TRUE, TRUE)

----------------------------------------------------------------------------
\* Time passes.
Tick ==
    \E d \in TickSteps :
        /\ now + d <= MaxTime
        /\ now' = now + d
        /\ last' = [verb |-> "tick", args |-> <<>>, sender |-> None, room |-> None,
                    tiers |-> {}, checked |-> <<>>, texts |-> <<>>, effects |-> {}, raised |-> FALSE,
                    http |-> <<>>, read |-> {}]
        /\ UNCHANGED <<recreate_rooms, inflight, rooms, elsewhere>>

----------------------------------------------------------------------------
\* the state after construction, but for the groups of the homeserver and the
\* accounts of the identity provider
InitBut ==
    /\ now = 0
    /\ recreate_rooms = {}
    /\ inflight = EmptyBag
    /\ rooms = {}
    /\ communities = EmptyBag
    /\ breakout_rooms = {}
    /\ search = Idle
    /\ last = [verb |-> "", args |-> <<>>, sender |-> None, room |-> None,
               tiers |-> {}, checked |-> <<>>, texts |-> <<>>, effects |-> {}, raised |-> FALSE,
                    http |-> <<>>, read |-> {}]

Init == InitBut /\ groups = {} /\ keycloak = [up |-> TRUE, users |-> {}]

\* The homeserver may have groups that bubo did not create.
InitCommunities ==
    /\ InitBut
    /\ groups \in SUBSET {"epic", "zine"}
    /\ keycloak = [up |-> TRUE, users |-> {}]

\* The recreate protocol: requests, confirmations, the collaborator, the clock.
NextRecreate == Tick \/ RoomsRecreate \/ RecreateRoomReturn

SpecRecreate == Init /\ [][NextRecreate]_vars

\* The command handlers and their gates, the clock standing still.
NextCommands ==
    \/ RoomsRecreateHome
    \/ RecreateRoomReturn
    \/ RoomsManage
    \/ Communities
    \/ Invite
    \/ Power
    \/ Users

SpecCommands == Init /\ [][NextCommands]_vars

\* The identity provider may have accounts that bubo did not create.
InitUsers ==
    /\ InitBut
    /\ groups = {}
    /\ keycloak \in [up : {TRUE}, users : SUBSET LegacyUsers]

\* `users create` against the identity provider, which may stop answering.
NextUsersCreate ==
    \/ UsersCreate
    \/ UsersCreateEmail
    \/ UsernameLookup
    \/ UsersCreateReport
    \/ KeycloakOutage
    \/ KeycloakRecovers

SpecUsersCreate == InitUsers /\ [][NextUsersCreate]_vars

\* `users create` is one synchronous call: once received it runs on, whatever
\* the identity provider does.
SpecUsersCreateFair ==
    /\ SpecUsersCreate
    /\ WF_vars(UsersCreateEmail)
    /\ WF_vars(UsernameLookup)
    /\ WF_vars(UsersCreateReport)

\* `communities create` against the homeserver.
NextCommunities == CommunitiesCreate

SpecCommunities == InitCommunities /\ [][NextCommunities]_vars

\* The tracked rooms: `create` and `unlink`.
NextRooms == RoomsCreate \/ RoomsUnlink

SpecRooms == Init /\ [][NextRooms]_vars

\* The commands that take a room reference, resolved or not.
NextResolve == RoomsCreate \/ RoomsUnlink \/ InviteRefs \/ PowerRefs

SpecResolve == Init /\ [][NextResolve]_vars

\* The gated handlers while the lookup of an access level may fail.
NextGates ==
    \/ GateRooms
    \/ RecreateRoomReturn
    \/ GateCommunities
    \/ GateInvite
    \/ GatePower
    \/ GateUsers

SpecGates == Init /\ [][NextGates]_vars

\* Command.process on command texts of every verb and of none.
NextProcess == Process

SpecProcess == Init /\ [][NextProcess]_vars

Next ==
    Tick \/ RoomsRecreate \/ NextCommands \/ Process \/ NextUsersCreate \/ NextRooms
        \/ NextGates \/ NextResolve

Spec == Init /\ [][Next]_vars

----------------------------------------------------------------------------
(* What the properties read off a state or a step *)

InSeq(x, seq) == \E i \in 1..Len(seq) : seq[i] = x

RowsOf(room) == get_recreate_room(recreate_rooms, room)

IsApplied(room) == \E row \in RowsOf(room) : row.applied = 1

\* the calls of recreate_room for the room that have not returned yet
InFlightFor(bag, room) ==
    CopiesIn([room_id |-> room, applied |-> 0], bag)
    + CopiesIn([room_id |-> room, applied |-> 1], bag)

IsRecreate(step) ==
    step.verb \in {"rooms", "spaces"} /\ step.args = <<"recreate">>

IsConfirm(step) ==
    step.verb \in {"rooms", "spaces"} /\ step.args = <<"recreate", "confirm">>

\* recreate_room has returned the id of a new room
IsRecreated(step) ==
    step.verb = "recreate_room" /\ step.args # <<None>>

Denials == {TEXT_DENIED_ADMIN, TEXT_DENIED_COORDINATOR}

----------------------------------------------------------------------------
(* The recreate protocol: C1 - C7, under SpecRecreate *)

\* C1: once the request of a room is applied, recreate_room is not invoked
\* for that room again, whoever sends `rooms recreate` or `rooms recreate
\* confirm` and whenever: no step adds a call of recreate_room for a room
\* whose request has applied = 1.
C1_NoInvocationOnceApplied ==
    [][\A room \in RoomIds :
          IsApplied(room) => InFlightFor(inflight', room) <= InFlightFor(inflight, room)]_vars

\* C2: of two `rooms recreate confirm` whose calls of recreate_room overlap,
\* at most one recreates the room: a call that was made while the request was
\* not applied does not come back with a new room once the request is applied
\* (by the other call).
C2_OverlappingConfirmsRecreateOnce ==
    [][\A call \in BagToSet(inflight) :
          ( /\ IsRecreated(last')
            /\ last'.room = call.room_id
            /\ inflight' = inflight (-) SetToBag({call})
            /\ call.applied = 0 )
          => ~IsApplied(call.room_id)]_vars

\* C3: a `rooms recreate confirm` from the requester of a pending request
\* (who still passes the admin gate) invokes recreate_room when at most 60
\* seconds have passed since the request, also at exactly 60; after more than
\* 60 seconds it is answered with the expiry text, recreate_room is not
\* invoked and the stored request stays as it was.
C3_ConfirmWindow ==
    [][\A row \in RowsOf(last'.room) :
          ( /\ IsConfirm(last')
            /\ "admin" \in last'.tiers
            /\ row.requester = last'.sender
            /\ row.applied = 0 )
          => IF now - row.timestamp <= 60
             THEN /\ last'.effects = {"recreate_room"}
                  /\ InFlightFor(inflight', last'.room) = InFlightFor(inflight, last'.room) + 1
                  /\ recreate_rooms' = recreate_rooms
             ELSE /\ last'.texts = <<TEXT_CONFIRM_EXPIRED>>
                  /\ last'.effects = {}
                  /\ inflight' = inflight
                  /\ recreate_rooms' = recreate_rooms]_vars

\* the requester's confirm was accepted exactly 60 seconds after the request
C3_Witness ==
    /\ IsConfirm(last)
    /\ last.effects = {"recreate_room"}
    /\ \E row \in RowsOf(last.room) :
          /\ row.requester = last.sender
          /\ row.applied = 0
          /\ now - row.timestamp = 60

\* C4: a `rooms recreate confirm` from a sender who is not the requester of
\* the room's request is rejected whenever it comes, admin or not:
\* recreate_room is not invoked and the request is unchanged; an admin is
\* told that the requester must confirm.
C4_OnlyRequesterConfirms ==
    [][\A row \in RowsOf(last'.room) :
          (IsConfirm(last') /\ row.requester # last'.sender)
          => /\ last'.effects = {}
             /\ inflight' = inflight
             /\ recreate_rooms' = recreate_rooms
             /\ Len(last'.texts) = 1
             /\ last'.texts[1] \in Denials \cup {TEXT_CONFIRM_NOT_REQUESTER}
             /\ ("admin" \in last'.tiers => last'.texts = <<TEXT_CONFIRM_NOT_REQUESTER>>)]_vars

\* another admin tried to confirm inside the window and was turned away
C4_Witness ==
    /\ IsConfirm(last)
    /\ "admin" \in last.tiers
    /\ last.texts = <<TEXT_CONFIRM_NOT_REQUESTER>>
    /\ \E row \in RowsOf(last.room) :
          /\ row.requester # last.sender
          /\ row.applied = 0
          /\ now - row.timestamp <= 60

\* C5 as claimed: once the request of a room is applied, every `rooms
\* recreate` for the room, from any sender of any tier, is answered with the
\* "already recreated" text, and the applied row is neither deleted nor
\* replaced.
C5_AlreadyRecreatedForEverySender ==
    [][(IsRecreate(last') /\ IsApplied(last'.room))
          => /\ last'.texts = <<TEXT_ALREADY_RECREATED>>
             /\ recreate_rooms' = recreate_rooms]_vars

\* C5 as amended: once the request of a room is applied, every `rooms
\* recreate` for the room is rejected and the applied row is neither deleted
\* nor replaced; a sender who passes the admin gate, requester or not, is
\* answered with the "already recreated" text, any other sender with the
\* permission denial.
C5_RecreateSingleUse ==
    [][(IsRecreate(last') /\ IsApplied(last'.room))
          => /\ recreate_rooms' = recreate_rooms
             /\ inflight' = inflight
             /\ last'.effects = {}
             /\ last'.texts = IF "admin" \in last'.tiers
                              THEN <<TEXT_ALREADY_RECREATED>>
                              ELSE IF last'.tiers = {}
                              THEN <<TEXT_DENIED_COORDINATOR>>
                              ELSE <<TEXT_DENIED_ADMIN>>]_vars

\* an admin who is not the requester asked again for an applied room
C5_Witness ==
    /\ IsRecreate(last)
    /\ last.texts = <<TEXT_ALREADY_RECREATED>>
    /\ \E row \in RowsOf(last.room) : row.applied = 1 /\ row.requester # last.sender

\* C6: the store holds at most one recreate request per room, whatever
\* `rooms recreate` and `rooms recreate confirm` commands were handled and
\* however they interleaved.
C6_OneRequestPerRoom ==
    \A room \in RoomIds : Cardinality(RowsOf(room)) <= 1

\* a `rooms recreate` has just replaced the unapplied request of its room
C6_Witness ==
    /\ IsRecreate(last)
    /\ last.effects = {"delete_recreate_room", "store_recreate_room"}
    /\ RowsOf(last.room) = {[requester |-> last.sender, room_id |-> last.room,
                             timestamp |-> now, applied |-> 0]}
    /\ now > 0

\* the requester (an admin) confirms the pending request of the room in time
ConfirmAgain(sender, room) ==
    /\ Command_rooms("rooms", <<"recreate", "confirm">>, sender, room,
                     [admins |-> {sender}, coordinators |-> {}, unavailable |-> {}])
    /\ last'.effects = {"recreate_room"}

\* recreate_room came back without a room, the request is pending and young enough
FailedInsideWindow(row) ==
    /\ last.verb = "recreate_room"
    /\ last.args = <<None>>
    /\ row \in RowsOf(last.room)
    /\ row.applied = 0
    /\ now - row.timestamp <= 60

\* C7: applied becomes 1 only in the step in which recreate_room returns a
\* new room; when it returns None the failure text is sent and the stored
\* request is left as it was, so that a confirm of the requester inside the
\* window invokes recreate_room again.
C7_AppliedOnlyOnSuccess ==
    /\ [][/\ \A room \in RoomIds :
                (IsApplied(room)' /\ ~IsApplied(room))
                => (IsRecreated(last') /\ last'.room = room)
          /\ (last'.verb = "recreate_room" /\ last'.args = <<None>>)
                => /\ last'.texts = <<TEXT_RECREATE_FAILED>>
                   /\ recreate_rooms' = recreate_rooms]_vars
    /\ [](\A row \in recreate_rooms :
             FailedInsideWindow(row) => ENABLED ConfirmAgain(row.requester, row.room_id))

\* recreate_room failed for a pending request that can still be confirmed
C7_Witness ==
    \E row \in recreate_rooms : FailedInsideWindow(row) /\ last.texts = <<TEXT_RECREATE_FAILED>>

----------------------------------------------------------------------------
(* The permission gates of the handlers: C8 - C10, under SpecCommands *)

\* the tier the handler of a command asks of its sender, None where it asks none
RequiredTier(step) ==
    CASE step.verb \in {"communities", "invite", "power"} -> "coordinator"
      [] step.verb \in {"rooms", "spaces"} ->
            IF step.args # <<>> /\ step.args[1] = "recreate"
            THEN "admin" ELSE "coordinator"
      [] step.verb = "users" ->
            IF step.args = <<>> \/ step.args[1] \in {"list", "create"} THEN "admin"
            ELSE IF step.args[1] \in {"invite", "signuplink"} THEN "coordinator"
            ELSE None
      [] OTHER -> None

\* the sender of the step is outside the tier its command requires
Outside(step) ==
    \/ RequiredTier(step) = "admin" /\ "admin" \notin step.tiers
    \/ RequiredTier(step) = "coordinator" /\ step.tiers = {}

IsDenied(step) == \E d \in Denials : InSeq(d, step.texts)

\* the step made no call that creates or changes a resource, and wrote or
\* deleted no row
NoSideEffect ==
    /\ last'.effects = {}
    /\ recreate_rooms' = recreate_rooms
    /\ rooms' = rooms
    /\ inflight' = inflight

\* C8 as stated: for every gated command, a sender outside the required tier
\* gets a denial response, and the command has no side effect. It fails for
\* the users commands while the Keycloak integration is disabled: the handler
\* answers with the help on the disabled integration before any gate.
C8_DenialForEveryGatedCommand ==
    [][Outside(last') => IsDenied(last') /\ NoSideEffect]_vars

\* C8: for every gated command (communities, invite, power, rooms/spaces and
\* their subcommands, rooms recreate [confirm], users list/create/invite/
\* signuplink), a command of a sender outside the required tier makes no call
\* that creates or changes a resource and writes or deletes no row; the sender
\* gets a denial response, except for a users command while the Keycloak
\* integration is disabled, which is answered with the help on the disabled
\* integration alone. The tier is evaluated anew at every command: a requester
\* who is no longer admin at confirm time is denied and recreate_room is not
\* invoked.
C8_DeniedWithoutSideEffect ==
    [][Outside(last') =>
          /\ NoSideEffect
          /\ \/ IsDenied(last')
             \/ /\ last'.verb = "users"
                /\ last'.texts = <<HELP_USERS_KEYCLOAK_DISABLED>>]_vars

\* the requester of a pending request, admin no longer, confirms and is denied
C8_Witness ==
    /\ IsConfirm(last)
    /\ "admin" \notin last.tiers
    /\ \E row \in RowsOf(last.room) : row.requester = last.sender /\ row.applied = 0
    /\ IsDenied(last)
    /\ last.effects = {}

\* the handlers that declare a coordinator requirement
CoordinatorGated(step) ==
    \/ step.verb \in {"communities", "invite", "power", "rooms", "spaces"}
    \/ /\ step.verb = "users"
       /\ step.args # <<>>
       /\ step.args[1] \in {"invite", "signuplink"}

\* C9: every command whose handler declares a coordinator requirement
\* (communities, invite, power, rooms/spaces, unlink, users invite, users
\* signuplink) is denied for a sender in neither tier: the gate answers with
\* the coordinator denial and nothing is done; and it is permitted for a sender
\* in the admin tier: the coordinator gate never denies an admin. In
\* particular an admin reaches `rooms recreate` behind the coordinator gate of
\* the rooms handler, and passes the admin gate there. (The users handler
\* evaluates its gate only while the Keycloak integration is enabled.)
C9_PermissionMonotonicity ==
    [][CoordinatorGated(last') =>
          /\ last'.checked = <<>> =>
                /\ last'.verb = "users"
                /\ last'.texts = <<HELP_USERS_KEYCLOAK_DISABLED>>
          /\ last'.checked # <<>> => last'.checked[1] = "coordinators"
          /\ last'.tiers = {} =>
                /\ NoSideEffect
                /\ last'.checked # <<>> => last'.texts = <<TEXT_DENIED_COORDINATOR>>
          /\ "admin" \in last'.tiers =>
                /\ ~InSeq(TEXT_DENIED_COORDINATOR, last'.texts)
                /\ last'.verb \in {"rooms", "spaces"}
                   /\ last'.args # <<>>
                   /\ last'.args[1] = "recreate" =>
                      /\ last'.checked = <<"coordinators", "admins">>
                      /\ ~IsDenied(last')]_vars

\* an admin who is not listed as a coordinator requests a recreation
C9_Witness ==
    /\ IsRecreate(last)
    /\ last.tiers = {"admin"}
    /\ last.checked = <<"coordinators", "admins">>
    /\ "store_recreate_room" \in last.effects

\* `power USER ROOM [LEVEL]` with a room that resolves
IsPowerOfLevel(step, levels) ==
    /\ step.verb = "power"
    /\ Len(step.args) >= 2
    /\ step.args[1] # "help"
    /\ ~(is_alias(step.args[2]) /\ resolve(step.args[2]) = None)
    /\ requested_level(step.args) \in levels

\* C10: `power USER ROOM admin` calls set_user_power with level 100 only when
\* the sender is in the admin set, and does call it then; a coordinator who is
\* not admin is refused and set_user_power is not called. `power USER ROOM`
\* and `power USER ROOM moderator` set level 50 for any coordinator, and any
\* other level is rejected without a call of set_user_power.
C10_AdminPowerNeedsAdmin ==
    /\ "set_user_power:100" \in last.effects =>
          /\ "admin" \in last.tiers
          /\ IsPowerOfLevel(last, {"admin"})
    /\ IsPowerOfLevel(last, {"admin"}) /\ "admin" \in last.tiers =>
          last.effects = {"set_user_power:100"}
    /\ IsPowerOfLevel(last, {"admin"}) /\ last.tiers = {"coordinator"} =>
          /\ InSeq(TEXT_POWER_ADMIN_ONLY, last.texts)
          /\ last.effects = {}
    /\ IsPowerOfLevel(last, {"moderator"}) /\ last.tiers # {} =>
          last.effects = {"set_user_power:50"}
    /\ /\ last.verb = "power"
       /\ Len(last.args) >= 2
       /\ last.args[1] # "help"
       /\ ~(is_alias(last.args[2]) /\ resolve(last.args[2]) = None)
       /\ ~level_allowed(requested_level(last.args))
       /\ last.tiers # {}
       => /\ last.texts = <<TEXT_POWER_BAD_LEVEL>>
          /\ last.effects = {}

\* a coordinator who is not admin asks for the admin level and is refused
C10_Witness ==
    /\ IsPowerOfLevel(last, {"admin"})
    /\ last.tiers = {"coordinator"}
    /\ InSeq(TEXT_POWER_ADMIN_ONLY, last.texts)
    /\ last.effects = {}

----------------------------------------------------------------------------
(* Dispatch, help and responses: C11, C12, under SpecProcess *)

\* the step handled a command text
IsCommand(step) == step.verb \notin {"", "tick", "recreate_room"} \cup InternalVerbs

\* C11: the verb is matched as the whole first token, case-sensitively and
\* exactly: a command whose first token is not one of help, breakout, rooms,
\* spaces, communities, power, invite, users (for example `helpme`, `roomsx`,
\* `inviteall`) is answered with exactly the unknown-command response and has
\* no side effect.
C11_UnknownVerbFallback ==
    [][IsCommand(last') /\ last'.verb \notin KnownVerbs =>
          /\ last'.texts = <<TEXT_UNKNOWN_COMMAND>>
          /\ NoSideEffect
          /\ UNCHANGED elsewhere]_vars

\* the subcommands of a verb of the grammar
Subcommands(verb) ==
    CASE verb \in {"rooms", "spaces"} ->
            {"create", "list", "recreate", "unlink", "unlink-and-leave"}
      [] verb = "communities" -> {"create"}
      [] verb = "users" -> {"list", "create", "invite", "signuplink"}
      [] OTHER -> {}

\* a bare verb, or `help` in the place of the first argument of the verb or of
\* one of its subcommands
HelpRequested(step) ==
    /\ step.verb \in KnownVerbs \ {"help"}
    /\ \/ step.args = <<>>
       \/ step.args[1] = "help"
       \/ /\ Len(step.args) >= 2
          /\ step.args[1] \in Subcommands(step.verb)
          /\ step.args[2] = "help"

\* the texts that are, or carry, the help of a verb or of a subcommand
HelpTexts ==
    {HELP_BREAKOUT, HELP_INVITE, HELP_POWER, HELP_ROOMS, HELP_SPACES,
     HELP_ROOMS_UNLINK, TEXT_ROOMS_BAD_ARGUMENTS, TEXT_RECREATE_UNKNOWN_SUBCOMMAND,
     TEXT_COMMUNITIES_USAGE, HELP_USERS, HELP_USERS_CREATE, HELP_USERS_INVITE,
     HELP_USERS_SIGNUPLINK, HELP_USERS_KEYCLOAK_DISABLED,
     HELP_USERS_KEYCLOAK_SIGNUP_DISABLED}

\* C12: for every handler (breakout, communities, invite, power, rooms, spaces,
\* users) and subcommand, a bare verb with no arguments, or the literal `help`
\* in the place of the first argument of the verb or subcommand, sent by a
\* sender the gates let through, is answered with the help text and nothing
\* else, and the operation is not performed: no listing, no store access, no
\* external call.
C12_HelpShortCircuit ==
    [][HelpRequested(last') /\ ~IsDenied(last') =>
          /\ Len(last'.texts) = 1
          /\ last'.texts[1] \in HelpTexts
          /\ NoSideEffect
          /\ UNCHANGED elsewhere]_vars

----------------------------------------------------------------------------
(* Reconciliation of communities: C13 - C15, under SpecCommunities *)

\* `communities create NAME ALIAS TITLE` that got to ensure_community_exists
IsCommunityCreate(step) ==
    /\ step.verb = "communities"
    /\ Len(step.args) = 4
    /\ step.args[1] = "create"
    /\ step.args[2] # "help"
    /\ ~IsDenied(step)

RowOf(step) == [name |-> step.args[2], alias |-> step.args[3], title |-> step.args[4]]

\* the server answered the profile request (it did not fail)
LookupAnswered(step) == step.http[1] < 500

\* C13: ensure-exists is idempotent. A call that yields `created` has created
\* the group; against the same homeserver every further call with the same
\* input, its lookup being answered, yields `exists`, issues no create request
\* and leaves the group and the tracking rows as they are; groups do not go
\* away, so this stays so.
C13_EnsureExistsIdempotent ==
    /\ [][IsCommunityCreate(last') /\ last'.texts = <<TEXT_COMMUNITY_CREATED>> =>
             /\ last'.args[3] \notin groups
             /\ last'.args[3] \in groups']_vars
    /\ [][IsCommunityCreate(last') /\ last'.args[3] \in groups /\ LookupAnswered(last') =>
             /\ last'.texts = <<TEXT_COMMUNITY_EXISTS>>
             /\ "create_group" \notin last'.effects
             /\ Len(last'.http) = 1
             /\ groups' = groups
             /\ communities' = communities]_vars
    /\ [][groups \subseteq groups']_vars

\* the same command answered `created` before, and `exists` now
C13_Witness ==
    /\ IsCommunityCreate(last)
    /\ last.texts = <<TEXT_COMMUNITY_EXISTS>>
    /\ CopiesIn(RowOf(last), communities) = 1

\* C14: when the create request is answered with a non-success status,
\* ensure-exists yields the error outcome with the upstream status and message,
\* the user is told that detail, and no tracking row is stored; a success
\* status yields `created`. Each call produces exactly one of created, exists
\* and error.
C14_UpstreamFailure ==
    /\ [][IsCommunityCreate(last') /\ Len(last'.http) = 2 =>
             IF last'.http[2] \in SuccessStatuses
             THEN last'.texts = <<TEXT_COMMUNITY_CREATED>>
             ELSE /\ last'.texts = <<TEXT_COMMUNITY_ERROR \o ToString(last'.http[2]) \o " / content">>
                  /\ "store_community" \notin last'.effects
                  /\ communities' = communities
                  /\ groups' = groups]_vars
    /\ [][IsCommunityCreate(last') =>
             /\ Len(last'.texts) = 1
             /\ \/ last'.texts[1] \in {TEXT_COMMUNITY_CREATED, TEXT_COMMUNITY_EXISTS}
                \/ /\ Len(last'.http) = 2
                   /\ last'.texts[1] = TEXT_COMMUNITY_ERROR \o error_detail(last'.http[2])]_vars

\* the homeserver refused to create the group, and the user was told its status
C14_Witness ==
    /\ IsCommunityCreate(last)
    /\ last.http = <<404, 400>>
    /\ last.texts = <<TEXT_COMMUNITY_ERROR \o "400 / content">>
    /\ communities = EmptyBag

\* C15: `communities create` stores a tracking row exactly when the outcome is
\* `created`, and nothing on `exists` or `error`; so however often the same
\* command is repeated, there is at most one tracking row for an alias, and
\* only for a group the homeserver has.
C15_RowExactlyWhenCreated ==
    /\ [][IsCommunityCreate(last') =>
             IF last'.texts = <<TEXT_COMMUNITY_CREATED>>
             THEN communities' = communities (+) SetToBag({RowOf(last')})
             ELSE communities' = communities]_vars
    /\ [](\A row \in BagToSet(communities) :
             /\ CopiesIn(row, communities) = 1
             /\ row.alias \in groups
             /\ \A other \in BagToSet(communities) : other.alias = row.alias => other = row)

\* the command was repeated after it had created the community: still one row
C15_Witness ==
    /\ IsCommunityCreate(last)
    /\ last.texts # <<TEXT_COMMUNITY_CREATED>>
    /\ CopiesIn(RowOf(last), communities) = 1
    /\ BagCardinality(communities) = 2

\* the candidates of the search for the email local part `ann`, in order
AnnCandidates == <<"ann", "ann1", "ann2", "ann3", "ann4", "ann5", "ann6", "ann7">>

\* the search gets beyond MaxSuffix only while the identity provider does not
\* answer
BeyondOnlyInOutage ==
    search.pc = "search" /\ search.counter > MaxSuffix => ~keycloak.up

\* C16: the username search of `users create` tries the candidates ann, ann1,
\* ann2, ... in this order, passes over a candidate only if an account has it
\* or its lookup raised, and ends only on a candidate that no account has: no
\* account is created under a username that an account already has.
C16_UsernameDisambiguation ==
    [][/\ search.pc = "search" =>
            /\ search.candidate = AnnCandidates[search.counter + 1]
            /\ \A k \in 1..search.counter :
                  AnnCandidates[k] \in usernames(keycloak) \cup search.skipped
       /\ search.pc = "search" /\ search'.pc # "search" =>
            /\ search.candidate \notin usernames(keycloak)
            /\ search.skipped = {} =>
                  \A k \in 1..Len(AnnCandidates) :
                      AnnCandidates[k] \notin usernames(keycloak) => k >= search.counter + 1
       /\ \A u \in keycloak'.users \ keycloak.users :
            /\ u.username \notin usernames(keycloak)
            /\ u.username = search.candidate]_vars

\* an account is created under ann2 because ann and ann1 are taken
C16_Witness ==
    /\ last.verb = "users"
    /\ {"ann", "ann1"} \subseteq {u.username : u \in LegacyUsers \cap keycloak.users}
    /\ \E u \in keycloak.users : u.username = "ann2" /\ u.email = "ann@example.org"

\* C17: the username search of `users create` never fails: once begun for an
\* email it ends on a username, whatever accounts exist and whatever the
\* lookups do, and the command goes on to answer.
C17_UsernameSearchTerminates ==
    /\ (search.pc = "search") ~> (search.pc # "search")
    /\ (search.pc # "idle") ~> (search.pc = "idle" /\ last.verb = "users" /\ ~last.raised)

\* the texts of an answer
TextsOf(step) == {step.texts[i] : i \in 1..Len(step.texts)}

IsBreakoutCreated(step) == IsCommand(step) /\ "create_breakout_room" \in step.effects

\* C18: when `breakout` has created the room, the mapping from the
\* announcement to the room is registered exactly when the announcement
\* returned an event id, and whenever the mapping is not registered the
\* answer both confirms the room and warns that invites by reaction will not
\* work.
C18_BreakoutRegistrationSurfaced ==
    [][IsBreakoutCreated(last') =>
          LET registered == breakout_rooms' # breakout_rooms IN
          /\ registered <=> last'.http[1] # None
          /\ ~registered =>
                /\ TEXT_BREAKOUT_CREATED \in TextsOf(last')
                /\ TEXT_BREAKOUT_NOT_STORED \in TextsOf(last')]_vars

RanToCompletion(step) ==
    \/ IsCommand(step) /\ ~step.raised /\ "recreate_room" \notin step.effects
    \/ step.verb = "recreate_room"

\* the handler sent a text to the room of the command, or handed that room to
\* invite_to_room to answer in
Answered(step) == step.texts # <<>> \/ "invite_to_room" \in step.effects

\* C20: every command that runs to completion has sent at least one message
\* to the room it came from, on every path of every handler, also the
\* `recreate confirm` whose recreate_room returned a new room.
C20_EveryCommandAnswers == RanToCompletion(last) => Answered(last)

----------------------------------------------------------------------------
(* The tracked rooms: C21, C29, under SpecRooms *)

IsCreate(step) ==
    step.verb \in {"rooms", "spaces"} /\ step.args # <<>> /\ step.args[1] = "create"

YesNo == {"yes", "no"}

\* `create` with exactly five parameters, the fourth and the fifth yes or no
WellFormedCreate(args) == Len(args) = 6 /\ args[5] \in YesNo /\ args[6] \in YesNo

\* C21: ensure_room_exists is called only for `create` with exactly five
\* parameters whose fourth and fifth are `yes` or `no`; every other `create`
\* of a sender who passes the gate is answered with the usage text and
\* leaves the tracked rooms as they were.
C21_MalformedCreateIsNoOp ==
    [][IsCreate(last') =>
          /\ "ensure_room_exists" \in last'.effects => WellFormedCreate(last'.args)
          /\ last'.tiers # {} /\ ~WellFormedCreate(last'.args) =>
                /\ last'.texts = <<TEXT_ROOMS_BAD_ARGUMENTS>>
                /\ rooms' = rooms]_vars

----------------------------------------------------------------------------
(* Gates and failures of every handler: C22 - C24 *)

\* C22: a command has an external side effect (a call that creates or
\* changes something, a store write) only if its handler checked a tier and
\* the sender is in a tier; this holds for `breakout` as for every handler.
C22_GateBeforeWork ==
    IsCommand(last) /\ last.effects # {} => last.checked # <<>> /\ last.tiers # {}

\* the configuration lists the sender for the access level
Listed(step, level) ==
    IF level = "admins" THEN "admin" \in step.tiers ELSE step.tiers # {}

\* the handler fetched an access level and ended in an exception: the lookup
\* raised, or the call behind the gate did
LookupFailed(step) == step.checked # <<>> /\ step.raised

\* the step made no call that creates or changes something and left every
\* store, the homeserver and the identity provider as they were
NothingDone ==
    /\ last'.effects = {}
    /\ UNCHANGED <<recreate_rooms, inflight, rooms, groups, communities, breakout_rooms,
                   keycloak>>

\* C23: when the lookup of an access level fails, or returns a set without
\* the sender, the gated operation is not performed: the handler makes no
\* external call and writes nothing; a failed lookup lets nobody through,
\* not even a sender the configuration lists.
C23_FailClosed ==
    [][IsCommand(last') /\ last'.checked # <<>>
          /\ (LookupFailed(last') \/ \E i \in 1..Len(last'.checked) :
                                        ~Listed(last', last'.checked[i]))
          => NothingDone]_vars

\* the lookup failed at the command of a sender the configuration lists for
\* every level fetched, with rooms tracked that the command could change
C23_Witness ==
    /\ IsCommand(last) /\ LookupFailed(last)
    /\ \A i \in 1..Len(last.checked) : Listed(last, last.checked[i])
    /\ last.verb = "rooms" /\ last.args = <<"unlink", "!lobby">>
    /\ "!lobby" \in rooms
    /\ last.effects = {}

\* C24: no failure raised while handling a command propagates out of the
\* command's processing: each is translated to one message to the room.
C24_FailuresAreAnswered ==
    IsCommand(last) => ~last.raised

----------------------------------------------------------------------------
(* Room references: C25, under SpecResolve *)

IsUnlink(step) ==
    step.verb \in {"rooms", "spaces"} /\ step.args # <<>>
        /\ step.args[1] \in {"unlink", "unlink-and-leave"}

\* the room reference that the command of the step has its handler resolve,
\* None when the handler is not given one or does not get to it
RoomRefOf(step) ==
    IF step.tiers = {} THEN None
    ELSE IF step.verb = "invite" /\ step.args # <<>> /\ step.args[1] # "help"
    THEN step.args[1]
    ELSE IF step.verb = "power" /\ Len(step.args) >= 2 /\ step.args[1] # "help"
    THEN step.args[2]
    ELSE IF IsUnlink(step) /\ Len(step.args) >= 2
    THEN step.args[2]
    ELSE None

ResolutionTexts == {TEXT_COULD_NOT_RESOLVE, TEXT_UNLINK_RESOLVE_ERROR}

\* C25: when the room reference given to invite, power or rooms
\* unlink[-and-leave] does not resolve, the command is answered with the
\* resolution failure alone and does nothing: no invite, no power level, no
\* row removed, no room left.
C25_ResolutionFailureAborts ==
    [][IsCommand(last') /\ RoomRefOf(last') = "#missing" =>
          /\ Len(last'.texts) = 1 /\ last'.texts[1] \in ResolutionTexts
          /\ last'.effects = {}
          /\ rooms' = rooms]_vars

\* `unlink-and-leave #missing` of a coordinator while the lobby is tracked
C25_Witness ==
    /\ IsUnlink(last) /\ RoomRefOf(last) = "#missing"
    /\ last.args[1] = "unlink-and-leave"
    /\ last.texts = <<TEXT_UNLINK_RESOLVE_ERROR>>
    /\ "!lobby" \in rooms

----------------------------------------------------------------------------
(* `users create` on an email that has an account: C26, under SpecUsersCreate *)

HasAccount(email) == \E u \in keycloak.users : u.email = email

\* C26: an email that already has an account gets the line `Found an
\* existing user by email ... - ignoring` and nothing else: no username
\* search, no create_user, no send_password_reset; the other emails of the
\* command stay to be processed. And a password reset is sent only with an
\* account that was created.
C26_ExistingEmailIgnored ==
    [][/\ search.pc = "emails" /\ search'.pc # "idle" /\ search'.emails # search.emails =>
            \A email \in search.emails \ search'.emails :
                HasAccount(email) /\ keycloak.up =>
                    /\ search'.pc = "emails"
                    /\ search'.texts = Append(search.texts, TEXT_EMAIL_EXISTS(email))
                    /\ search'.effects = search.effects
                    /\ search'.emails = search.emails \ {email}
                    /\ keycloak' = keycloak
       /\ search.pc = "search" /\ search'.pc = "emails" =>
            \/ /\ keycloak'.users = keycloak.users \cup
                                        {[username |-> search.candidate, email |-> search.email]}
               /\ keycloak'.users # keycloak.users
               /\ search'.texts = Append(search.texts, TEXT_CREATED(search.email))
            \/ /\ keycloak' = keycloak
               /\ "send_password_reset" \notin search'.effects \ search.effects
               /\ search'.texts = Append(search.texts, TEXT_CREATE_FAILED(search.email))]_vars

\* one command names an email that has an account and one that has none: the
\* first is ignored, and then the account of the second is created
C26_Witness ==
    /\ search.pc = "emails"
    /\ search.texts = <<TEXT_EMAIL_EXISTS("ann@example.org"), TEXT_CREATED("An+n@example.org")>>
    /\ HasAccount("ann@example.org")
    /\ search.effects = {"create_user", "send_password_reset"}

----------------------------------------------------------------------------
(* Takeover and confirm without request: C27, C28, under SpecRecreate *)

\* C27: `recreate` of an admin in a room whose unapplied request is of
\* another sender replaces that request, however young, by one of the admin;
\* and while a room's unapplied request is of one sender, the `recreate
\* confirm` of any other admin is rejected as not the requester's, and
\* recreate_room is invoked only by a confirm of the requester.
C27_Takeover ==
    [][/\ ( /\ IsRecreate(last')
             /\ "admin" \in last'.tiers
             /\ \E row \in RowsOf(last'.room) :
                    row.applied = 0 /\ row.requester # last'.sender )
          => {row \in recreate_rooms' : row.room_id = last'.room}
                = {[requester |-> last'.sender, room_id |-> last'.room,
                    timestamp |-> now, applied |-> 0]}
       /\ IsConfirm(last') /\ "admin" \in last'.tiers =>
            \A row \in RowsOf(last'.room) :
                row.requester # last'.sender =>
                    /\ last'.texts = <<TEXT_CONFIRM_NOT_REQUESTER>>
                    /\ last'.effects = {}
                    /\ inflight' = inflight
       /\ IsConfirm(last') /\ "recreate_room" \in last'.effects =>
            \E row \in RowsOf(last'.room) : row.requester = last'.sender]_vars

\* an admin has just taken over the request another sender made less than 60
\* seconds ago
C27_Witness ==
    /\ IsRecreate(last)
    /\ \E old \in last.read :
          /\ old.applied = 0
          /\ old.requester # last.sender
          /\ now - old.timestamp < ConfirmWindow
          /\ now > old.timestamp
    /\ RowsOf(last.room) = {[requester |-> last.sender, room_id |-> last.room,
                              timestamp |-> now, applied |-> 0]}

\* the rows of the table that name the room
Requests(store, room) == {row \in store : row.room_id = room}

\* C28: `recreate confirm` in a room that has no stored request is rejected:
\* recreate_room is not invoked and no row is written, and an admin is told
\* to request first; a room gets its row from a `recreate` in that room only,
\* so recreate_room is invoked only for a room that `recreate` was issued in.
C28_ConfirmNeedsRequest ==
    [][/\ IsConfirm(last') /\ Requests(recreate_rooms, last'.room) = {} =>
            /\ last'.effects = {}
            /\ inflight' = inflight
            /\ recreate_rooms' = recreate_rooms
            /\ ("admin" \in last'.tiers => last'.texts = <<TEXT_CONFIRM_BEFORE_REQUEST>>)
       /\ \A room \in RoomIds :
            Requests(recreate_rooms, room) = {} /\ Requests(recreate_rooms', room) # {} =>
                IsRecreate(last') /\ last'.room = room /\ "admin" \in last'.tiers
       /\ \A room \in RoomIds :
            InFlightFor(inflight', room) > InFlightFor(inflight, room) =>
                Requests(recreate_rooms, room) # {}]_vars

\* an admin confirmed in a room without a request while the other room has a
\* request of that admin, inside its window
C28_Witness ==
    /\ IsConfirm(last) /\ "admin" \in last.tiers
    /\ last.texts = <<TEXT_CONFIRM_BEFORE_REQUEST>>
    /\ Requests(recreate_rooms, last.room) = {}
    /\ \E row \in recreate_rooms :
          row.requester = last.sender /\ row.applied = 0 /\ now - row.timestamp <= ConfirmWindow
    /\ inflight = EmptyBag

----------------------------------------------------------------------------
(* unlink and unlink-and-leave: C29, under SpecRooms *)

\* the room that the reference of an unlink names, None when there is none
UnlinkTarget(step) ==
    IF Len(step.args) < 2 \/ step.args[2] = "#missing" THEN None
    ELSE IF step.args[2] = "#lobby" THEN "!lobby"
    ELSE step.args[2]

\* C29: unlink and unlink-and-leave of a coordinator remove the row of the
\* room they name when it is tracked, and only that row; for a room that is
\* not tracked the tracked rooms stay as they were and nothing is called.
\* room_leave is called only by unlink-and-leave, and only together with the
\* removal of the row of a tracked room; plain unlink never calls it.
C29_UnlinkOnlyTracked ==
    [][IsUnlink(last') =>
          /\ UnlinkTarget(last') \notin rooms =>
                rooms' = rooms /\ last'.effects = {}
          /\ UnlinkTarget(last') \in rooms /\ last'.tiers # {} =>
                /\ rooms' = rooms \ {UnlinkTarget(last')}
                /\ "unlink_room" \in last'.effects
                /\ ("room_leave" \in last'.effects <=> last'.args[1] = "unlink-and-leave")
          /\ rooms' # rooms =>
                rooms' = rooms \ {UnlinkTarget(last')} /\ "unlink_room" \in last'.effects
          /\ "room_leave" \in last'.effects =>
                /\ last'.args[1] = "unlink-and-leave"
                /\ "unlink_room" \in last'.effects
                /\ UnlinkTarget(last') \in rooms \ rooms']_vars

\* unlink-and-leave of a room that is not tracked: nothing is left
C29_Witness ==
    /\ IsUnlink(last) /\ last.args = <<"unlink-and-leave", "#lobby">>
    /\ last.tiers # {}
    /\ last.texts = <<TEXT_UNLINK_NOT_TRACKED>>
    /\ last.effects = {}
    /\ rooms = {}

----------------------------------------------------------------------------
(* The requests of ensure_community_exists: C30, under SpecCommunities *)

\* C30: ensure_community_exists sends the create request exactly when the
\* profile lookup is answered with a status other than 200, a failure of the
\* server included; its outcome is `exists` exactly when the lookup was
\* answered 200, `error` exactly when the create request was answered above
\* 201, and `created` otherwise.
C30_CreateUnlessFound ==
    [][IsCommunityCreate(last') =>
          /\ Len(last'.http) \in {1, 2}
          /\ Len(last'.http) = 2 <=> last'.http[1] # 200
          /\ "create_group" \in last'.effects <=> last'.http[1] # 200
          /\ last'.texts = <<TEXT_COMMUNITY_EXISTS>> <=> last'.http[1] = 200
          /\ last'.texts = <<TEXT_COMMUNITY_CREATED>>
                <=> last'.http[1] # 200 /\ last'.http[2] <= 201
          /\ last'.texts \notin {<<TEXT_COMMUNITY_EXISTS>>, <<TEXT_COMMUNITY_CREATED>>}
                <=> last'.http[1] # 200 /\ last'.http[2] > 201]_vars

\* the lookup failed on the server, the create request was sent and answered
\* 201
C30_Witness ==
    /\ IsCommunityCreate(last)
    /\ last.http = <<500, 201>>
    /\ last.texts = <<TEXT_COMMUNITY_CREATED>>
    /\ "create_group" \in last.effects

====
